---- MODULE Spec2Model ----
(***************************************************************************)
(* A model of http-representation: the message body (Body, src/body.ts),   *)
(* the stream replay helper (src/node/replay-readable.ts) and the          *)
(* ResponseBuilder (response-builder.ts).                                  *)
(***************************************************************************)
EXTENDS Integers, Sequences, FiniteSets, TLC

\* ------------------------------------------------------------------ bounds
MaxCalls == 2
MaxChunks == 2
MaxFrags == 3
MaxValues == 2

\* ------------------------------------------------------------------ state
VARIABLES
    support,             \* body.ts: host capability flags
    streamModule,        \* replay-readable.ts: whether getModule("stream") yields a module
    bodyRepresentation,  \* Body.bodyRepresentation, as the set of its tags
    source,              \* the bytes of the body's source (one byte per stream chunk)
    bodyUsedInternal,    \* Body.bodyUsedInternal
    ignoreConsume,       \* Body.ignoreConsume
    readableReplay,      \* Body.readableReplay: "unset", "pending", "function", "undefined"
    replayStarts,        \* number of createReplayReadable calls made on the body
    initial,             \* the live stream: [pos, flowing, ended, errored]
    chunks,              \* createReplayReadable: chunks recorded so far
    ended,               \* createReplayReadable: ended flag
    recording,           \* createReplayReadable: listeners registered on the live stream
    replayError,         \* createReplayReadable: error, whether one was recorded
    calls,               \* the accessor calls made on the body, in call order
    ignoreSubsequentFullResponses,   \* ResponseBuilder option
    replaceSubsequentFullResponses,  \* ResponseBuilder option
    editableResponses,   \* ResponseBuilder.editableResponses
    fullResponseAppended,\* ResponseBuilder.fullResponseAppended
    contaminated,        \* ResponseBuilder.contaminated
    response,            \* ResponseBuilder.response (the cached build)
    last,                \* the last builder operation and its outcome
    script,              \* how many fragments of the README's example were passed to with()
    options,             \* the options object given to new ResponseBuilder(options)
    disableReadableCheck,    \* ResponseBuilder option, as stored by the constructor
    useSetForEntityHeaders,  \* ResponseBuilder option, as stored by the constructor
    entityHeaders,       \* ResponseBuilder.entityHeaders
    headers,             \* Headers.headers: the own properties of a Headers, in insertion order
    prototype,           \* the prototype of the object Headers.headers
    mode,                \* the guard mode of the Headers ("none" when it is not guarded)
    call,                \* the last call made on the Headers and its outcome
    editableStatus,      \* Response.editableStatus
    editableStatusText,  \* Response.editableStatusText
    type,                \* Response[TYPE]
    redirected,          \* Response[REDIRECTED]
    partial,             \* PartialResponse.partial (false on a Response)
    made                 \* the construction made last, its arguments and its outcome

bodyVars == <<support, streamModule, bodyRepresentation, source, bodyUsedInternal,
              ignoreConsume, readableReplay, replayStarts, initial, chunks, ended,
              recording, replayError, calls>>
builderVars == <<ignoreSubsequentFullResponses, replaceSubsequentFullResponses,
                 editableResponses, fullResponseAppended, contaminated,
                 response, last, script, options, disableReadableCheck,
                 useSetForEntityHeaders, entityHeaders>>
configVars == <<ignoreSubsequentFullResponses, replaceSubsequentFullResponses,
                options, disableReadableCheck, useSetForEntityHeaders, entityHeaders>>
headersVars == <<headers, prototype, mode, call>>
responseVars == <<editableStatus, editableStatusText, type, redirected, partial, made>>
vars == <<bodyVars, builderVars, headersVars, responseVars>>

\* ------------------------------------------------------------------ body.ts
\* One byte per chunk; byte 1 stands for the character '1', byte 2 for '{'.
Bytes == {1, 2}

SeqsUpTo(S, n) == UNION {[1..k -> S] : k \in 0..n}

\* JSON.parse on a text over the two characters: a run of '1' is a number,
\* the empty text and any text holding '{' do not parse.
ValidJSON(bytes) == Len(bytes) > 0 /\ \A i \in 1..Len(bytes) : bytes[i] = 1

Hosts ==
    { [buffer |-> TRUE, arrayBuffer |-> TRUE, blob |-> FALSE, formData |-> FALSE],
      [buffer |-> FALSE, arrayBuffer |-> TRUE, blob |-> TRUE, formData |-> TRUE],
      [buffer |-> FALSE, arrayBuffer |-> FALSE, blob |-> FALSE, formData |-> FALSE] }

\* The representations getBody can produce in a host.
Representations(host) ==
    {{}, {"text"}, {"readable"}}
      \cup (IF host.buffer \/ host.arrayBuffer THEN {{"buffer"}} ELSE {})
      \cup (IF host.blob THEN {{"blob"}} ELSE {})
      \cup (IF host.formData THEN {{"formData"}} ELSE {})
      \cup (IF host.arrayBuffer /\ host.blob THEN {{"arrayBuffer", "blob"}} ELSE {})
      \cup (IF host.arrayBuffer THEN {{"arrayBuffer"}} ELSE {})

Accessors == {"arrayBuffer", "blob", "formData", "json", "text", "buffer",
              "readable", "bestSuited"}

consumedNeverMarks ==
    [rejected |-> bodyUsedInternal, used |-> bodyUsedInternal]

\* Body.consumed: whether the call is rejected, and bodyUsedInternal afterwards.
consumed ==
    [rejected |-> bodyUsedInternal,
     used |-> IF bodyUsedInternal THEN TRUE
              ELSE IF ignoreConsume THEN FALSE
              ELSE TRUE]

ignoreBodyUsedAlways == TRUE

\* Body.ignoreBodyUsed
ignoreBodyUsed ==
    IF bodyUsedInternal \/ ignoreConsume THEN ignoreConsume ELSE TRUE

\* Body.textNoConsumeCheck on a representation that is no stream.
textNoConsumeCheck ==
    IF "buffer" \in bodyRepresentation THEN "ok"
    ELSE IF "blob" \in bodyRepresentation THEN "ok"
    ELSE IF "arrayBuffer" \in bodyRepresentation THEN "ok"
    ELSE IF "text" \notin bodyRepresentation THEN "CouldNotText"
    ELSE "ok"

\* Body.blob after its consumption check, on a representation that is no stream.
blobBody ==
    IF ~support.blob THEN "NotAvailable"
    ELSE IF "blob" \in bodyRepresentation THEN "ok"
    ELSE IF "buffer" \in bodyRepresentation THEN "ok"
    ELSE IF "arrayBuffer" \in bodyRepresentation THEN "ok"
    ELSE IF "text" \notin bodyRepresentation THEN "CouldNotBlob"
    ELSE "ok"

\* Body.blob called from inside another accessor: it runs consumed() again.
nestedBlob(usedNow) == IF usedNow THEN "AlreadyRead" ELSE blobBody

\* Body.arrayBuffer after its consumption check, on a representation that is no stream.
arrayBufferBody(usedNow) ==
    IF ~support.arrayBuffer THEN "NotAvailable"
    ELSE IF "buffer" \in bodyRepresentation THEN "ok"
    ELSE IF "arrayBuffer" \in bodyRepresentation THEN "ok"
    ELSE IF "text" \in bodyRepresentation THEN "ok"
    ELSE IF nestedBlob(usedNow) = "ok" THEN "ok"
    ELSE "CouldNotArrayBuffer"

\* Body.arrayBuffer called from inside buffer_DO_NOT_USE_NON_STANDARD.
nestedArrayBuffer(usedNow) == IF usedNow THEN "AlreadyRead" ELSE arrayBufferBody(usedNow)

\* Body.buffer_DO_NOT_USE_NON_STANDARD after its consumption check, no stream.
bufferBody(usedNow) ==
    IF "buffer" \in bodyRepresentation THEN "ok"
    ELSE IF "text" \in bodyRepresentation
         THEN (IF support.buffer THEN "ok" ELSE "ReferenceError")
    ELSE IF nestedArrayBuffer(usedNow) = "ok" THEN "ok"
    ELSE "CouldNotBuffer"

\* Body.formData after its consumption check, no stream.
formDataBody ==
    IF ~support.formData THEN "NotAvailable"
    ELSE IF "formData" \in bodyRepresentation THEN "ok"
    ELSE IF textNoConsumeCheck = "ok" THEN "ok"
    ELSE "CouldNotFormData"

\* Body.json after its consumption check, no stream.
jsonBody ==
    IF textNoConsumeCheck = "ok" /\ ValidJSON(source) THEN "ok" ELSE "CouldNotJson"

\* The outcome of an accessor on a representation that is no stream, once
\* consumed() let the call pass and left bodyUsedInternal = usedNow.
Convert(acc, usedNow) ==
    CASE acc = "arrayBuffer" -> arrayBufferBody(usedNow)
      [] acc = "blob" -> blobBody
      [] acc = "formData" -> formDataBody
      [] acc = "json" -> jsonBody
      [] acc = "text" -> textNoConsumeCheck
      [] acc = "buffer" -> bufferBody(usedNow)
      [] acc = "readable" ->
            IF ~support.buffer THEN "NotAvailable" ELSE "RequiredReadable"
      [] acc = "bestSuited" -> "ok"

\* How an accessor reaches a stream-backed body: "direct" reads
\* bodyRepresentation.readable itself, "read" drains the stream that
\* createReadableIfRequired returns, "return" hands that stream to the caller.
Route(acc) ==
    CASE acc \in {"arrayBuffer", "blob"} -> "direct"
      [] acc \in {"formData", "json", "text", "buffer"} -> "read"
      [] acc \in {"readable", "bestSuited"} -> "return"

\* The capability an accessor checks before it touches a stream, if any.
Capable(acc) ==
    CASE acc = "arrayBuffer" -> support.arrayBuffer
      [] acc = "blob" -> support.blob
      [] acc = "formData" -> support.formData
      [] acc = "readable" -> support.buffer
      [] OTHER -> TRUE

\* What the accessor makes of the bytes readReadableAsBuffer collected.
Finish(acc, bytes) ==
    IF acc = "json" /\ ~ValidJSON(bytes) THEN "CouldNotJson" ELSE "ok"

\* What the accessor makes of the "Already used" error of createReadableIfRequired.
Rethrow(acc) ==
    CASE acc = "json" -> "CouldNotJson"
      [] acc = "formData" -> "CouldNotFormData"
      [] OTHER -> "AlreadyUsed"

Call(acc, pc, on, bytes, result) ==
    [acc |-> acc, pc |-> pc, on |-> on, bytes |-> bytes, result |-> result]

Done(acc, result) == Call(acc, "done", "none", <<>>, result)

\* readReadableAsBuffer(readable) on the live stream: a stream that has ended
\* emits nothing more, so the read stays pending.
ReadInitial(acc) == Call(acc, "reading", "initial", <<>>, "pending")

\* The first, synchronous part of createReadableIfRequired, for a stream-backed body.
createReadableIfRequired(acc) ==
    IF ~ignoreConsume
    THEN IF Route(acc) = "return" THEN Call(acc, "done", "initial", <<>>, "ok")
         ELSE ReadInitial(acc)
    ELSE IF readableReplay # "unset"
    THEN Call(acc, "wait", "none", <<>>, "pending")
    ELSE Call(acc, "setup", "none", <<>>, "pending")

\* A public accessor call, up to its first suspension.
Accessor(acc) ==
    /\ Len(calls) < MaxCalls
    /\ IF bodyRepresentation = {}
       THEN /\ calls' = Append(calls, Done(acc, "undefined"))
            /\ UNCHANGED <<bodyUsedInternal, readableReplay, replayStarts, initial>>
       ELSE IF consumed.rejected
       THEN /\ calls' = Append(calls, Done(acc, "AlreadyRead"))
            /\ UNCHANGED <<bodyUsedInternal, readableReplay, replayStarts, initial>>
       ELSE /\ bodyUsedInternal' = consumed.used
            /\ IF "readable" \notin bodyRepresentation
               THEN /\ calls' = Append(calls, Done(acc, Convert(acc, consumed.used)))
                    /\ UNCHANGED <<readableReplay, replayStarts, initial>>
               ELSE IF ~Capable(acc)
               THEN /\ calls' = Append(calls, Done(acc, "NotAvailable"))
                    /\ UNCHANGED <<readableReplay, replayStarts, initial>>
               ELSE IF Route(acc) = "direct"
               THEN /\ calls' = Append(calls, ReadInitial(acc))
                    /\ initial' = [initial EXCEPT !.flowing = TRUE]
                    /\ UNCHANGED <<readableReplay, replayStarts>>
               ELSE LET c == createReadableIfRequired(acc) IN
                    /\ calls' = Append(calls, c)
                    /\ initial' = IF c.pc = "reading"
                                  THEN [initial EXCEPT !.flowing = TRUE]
                                  ELSE initial
                    /\ readableReplay' = IF c.pc = "setup" THEN "pending"
                                         ELSE readableReplay
                    /\ replayStarts' = IF c.pc = "setup" THEN replayStarts + 1
                                       ELSE replayStarts
    /\ UNCHANGED <<support, streamModule, bodyRepresentation, source, ignoreConsume,
                   chunks, ended, recording, replayError>>
    /\ UNCHANGED <<builderVars, headersVars, responseVars>>

IgnoreBodyUsed ==
    /\ ignoreConsume' = ignoreBodyUsed
    /\ ignoreConsume' # ignoreConsume
    /\ UNCHANGED <<support, streamModule, bodyRepresentation, source, bodyUsedInternal,
                   readableReplay, replayStarts, initial, chunks, ended, recording,
                   replayError, calls>>
    /\ UNCHANGED <<builderVars, headersVars, responseVars>>

\* createReplayReadable, from the resolution of getModule on: without the stream
\* module it yields undefined, with it it registers its listeners on the live
\* stream and yields the replay function.
createReplayReadable ==
    /\ readableReplay = "pending"
    /\ IF streamModule
       THEN /\ readableReplay' = "function"
            /\ recording' = TRUE
            /\ initial' = [initial EXCEPT !.flowing = TRUE]
       ELSE /\ readableReplay' = "undefined"
            /\ UNCHANGED <<recording, initial>>
    /\ UNCHANGED <<support, streamModule, bodyRepresentation, source, bodyUsedInternal,
                   ignoreConsume, replayStarts, chunks, ended, replayError, calls>>
    /\ UNCHANGED <<builderVars, headersVars, responseVars>>

\* The replay function: a fresh stream holding the recorded chunks, ended when
\* the recorder saw the end. When the recorder holds an error, result.emit()
\* names no event and the stream is left open as it is; otherwise it is piped
\* from the live stream.
Replay(acc) ==
    IF Route(acc) = "return" THEN Call(acc, "done", "result", <<>>, "ok")
    ELSE IF ended THEN Call(acc, "done", "result", chunks, Finish(acc, chunks))
    ELSE IF replayError THEN Call(acc, "reading", "open", chunks, "pending")
    ELSE Call(acc, "reading", "result", chunks, "pending")

\* createReadableIfRequired after its await of readableReplay. Promise reactions
\* run in the order the awaits were made, which is call order.
Resume(i) ==
    /\ i \in 1..Len(calls)
    /\ calls[i].pc \in {"setup", "wait"}
    /\ \A j \in 1..(i - 1) : calls[j].pc \notin {"setup", "wait"}
    /\ readableReplay \in {"function", "undefined"}
    /\ LET acc == calls[i].acc IN
       IF readableReplay = "function"
       THEN /\ calls' = [calls EXCEPT ![i] = Replay(acc)]
            /\ UNCHANGED <<bodyUsedInternal, initial>>
       ELSE IF calls[i].pc = "wait" \/ bodyUsedInternal
       THEN /\ calls' = [calls EXCEPT ![i] = Done(acc, Rethrow(acc))]
            /\ UNCHANGED <<bodyUsedInternal, initial>>
       ELSE /\ bodyUsedInternal' = TRUE
            /\ IF Route(acc) = "return"
               THEN /\ calls' = [calls EXCEPT ![i] = Call(acc, "done", "initial", <<>>, "ok")]
                    /\ UNCHANGED initial
               ELSE /\ calls' = [calls EXCEPT ![i] = ReadInitial(acc)]
                    /\ initial' = [initial EXCEPT !.flowing = TRUE]
    /\ UNCHANGED <<support, streamModule, bodyRepresentation, source, ignoreConsume,
                   readableReplay, replayStarts, chunks, ended, recording, replayError>>
    /\ UNCHANGED <<builderVars, headersVars, responseVars>>

\* The live stream emits its next chunk to the listeners registered on it.
Data ==
    /\ "readable" \in bodyRepresentation
    /\ initial.flowing /\ ~initial.ended /\ ~initial.errored
    /\ initial.pos < Len(source)
    /\ LET chunk == source[initial.pos + 1] IN
       /\ initial' = [initial EXCEPT !.pos = initial.pos + 1]
       /\ chunks' = IF recording THEN Append(chunks, chunk) ELSE chunks
       /\ calls' = [i \in 1..Len(calls) |->
                      IF calls[i].pc = "reading" /\ calls[i].on # "open"
                      THEN [calls[i] EXCEPT !.bytes = Append(calls[i].bytes, chunk)]
                      ELSE calls[i]]
    /\ UNCHANGED <<support, streamModule, bodyRepresentation, source, bodyUsedInternal,
                   ignoreConsume, readableReplay, replayStarts, ended, recording,
                   replayError>>
    /\ UNCHANGED <<builderVars, headersVars, responseVars>>

\* The live stream ends: pending reads resolve, the recorder notes the end.
End ==
    /\ "readable" \in bodyRepresentation
    /\ initial.flowing /\ ~initial.ended /\ ~initial.errored
    /\ initial.pos = Len(source)
    /\ initial' = [initial EXCEPT !.ended = TRUE]
    /\ ended' = (ended \/ recording)
    /\ calls' = [i \in 1..Len(calls) |->
                   IF calls[i].pc = "reading" /\ calls[i].on # "open"
                   THEN Call(calls[i].acc, "done", calls[i].on, calls[i].bytes,
                             Finish(calls[i].acc, calls[i].bytes))
                   ELSE calls[i]]
    /\ UNCHANGED <<support, streamModule, bodyRepresentation, source, bodyUsedInternal,
                   ignoreConsume, readableReplay, replayStarts, chunks, recording,
                   replayError>>
    /\ UNCHANGED <<builderVars, headersVars, responseVars>>

\* What the accessor makes of the rejection of readReadableAsBuffer.
Reject(acc) ==
    CASE acc = "json" -> "CouldNotJson"
      [] acc = "formData" -> "CouldNotFormData"
      [] OTHER -> "StreamError"

\* The live stream emits an error and emits nothing after it: the reads that
\* listen on the live stream reject, the recorder keeps the error. A stream
\* piped from the live stream is neither ended nor failed by it.
ErrorEvent ==
    /\ "readable" \in bodyRepresentation
    /\ initial.flowing /\ ~initial.ended /\ ~initial.errored
    /\ initial' = [initial EXCEPT !.errored = TRUE]
    /\ replayError' = (replayError \/ recording)
    /\ calls' = [i \in 1..Len(calls) |->
                   IF calls[i].pc = "reading" /\ calls[i].on = "initial"
                   THEN Call(calls[i].acc, "done", "initial", calls[i].bytes,
                             Reject(calls[i].acc))
                   ELSE calls[i]]
    /\ UNCHANGED <<support, streamModule, bodyRepresentation, source, bodyUsedInternal,
                   ignoreConsume, readableReplay, replayStarts, chunks, ended,
                   recording>>
    /\ UNCHANGED <<builderVars, headersVars, responseVars>>

\* --------------------------------------------------------------- headers.ts
\* A Headers object: the own properties of Headers.headers in insertion order,
\* each a lower-cased name with its values. Names and values are strings.
CharAt(s, i) == SubSeq(s, i, i)

Chars(s) == {CharAt(s, i) : i \in 1..Len(s)}

UpperCase == "ABCDEFGHIJKLMNOPQRSTUVWXYZ"
LowerCase == "abcdefghijklmnopqrstuvwxyz"

LowerOf ==
    [c \in Chars(UpperCase) |->
        CharAt(LowerCase, CHOOSE i \in 1..Len(UpperCase) : CharAt(UpperCase, i) = c)]

\* String.prototype.toLowerCase, character by character.
RECURSIVE toLowerCase(_)
toLowerCase(name) ==
    IF name = "" THEN ""
    ELSE LET c == CharAt(name, 1) IN
         (IF c \in DOMAIN LowerOf THEN LowerOf[c] ELSE c)
           \o toLowerCase(SubSeq(name, 2, Len(name)))

\* The names and values given to the methods of a Headers: names in several
\* cases, names of the forbidden lists, a name that is a property of every
\* object, and names and a value that the validation refuses.
Names == {"Link", "link", "Set-Cookie", "Content-Length", "__proto__", "", "bad name"}
Values == {"v", "w", "a\nb"}

\* name.toLowerCase(), computed once for the names that occur.
LowerCased ==
    [name \in Names \cup {"Content-Type", "content-type", "content-length", "set-cookie",
                          "Location", "location", "Accept", "accept"}
        |-> toLowerCase(name)]

ToLowerCase(name) ==
    IF name \in DOMAIN LowerCased THEN LowerCased[name] ELSE toLowerCase(name)

\* The characters invalidTokenRegex lets pass in a name.
TokenChars ==
    Chars(UpperCase) \cup Chars(LowerCase) \cup Chars("0123456789")
      \cup Chars("^_`-!#$%&'*+.|~")

\* The characters invalidHeaderCharRegex lets pass in a value: the tab and the
\* printable ASCII characters (the values used here hold no character above 0x7e).
HeaderChars == TokenChars \cup Chars(" \t\"(),/:;<=>?@[\\]{}")

validateNameAcceptsAll(name) == "none"

\* validateName: the error it throws, "none" when it returns.
validateName(name) ==
    IF name = "" \/ \E c \in Chars(name) : c \notin TokenChars
    THEN "not a legal HTTP header name"
    ELSE "none"

\* validateValue: the error it throws, "none" when it returns.
validateValue(value) ==
    IF \E c \in Chars(value) : c \notin HeaderChars
    THEN "not a legal HTTP header value"
    ELSE "none"

FORBIDDEN_REQUEST_HEADER_NAMES ==
    {"accept-charset", "accept-encoding", "access-control-request-headers",
     "access-control-request-method", "connection", "content-length", "cookie",
     "cookie2", "date", "dnt", "expect", "host", "keep-alive", "origin", "referer",
     "te", "trailer", "transfer-encoding", "upgrade", "via"}

FORBIDDEN_RESPONSE_HEADER_NAMES == {"set-cookie", "set-cookie2"}

guardIgnoresCase(m, name) ==
    IF m = "immutable" THEN "Headers instance is immutable"
    ELSE IF m = "request" /\ name \in FORBIDDEN_REQUEST_HEADER_NAMES
    THEN "forbidden header name"
    ELSE IF m = "response" /\ name \in FORBIDDEN_RESPONSE_HEADER_NAMES
    THEN "forbidden header name"
    ELSE "none"

guardRequestOnly(m, name) ==
    IF m = "immutable" THEN "Headers instance is immutable"
    ELSE IF m = "request" /\ ToLowerCase(name) \in FORBIDDEN_REQUEST_HEADER_NAMES
    THEN "forbidden header name"
    ELSE "none"

\* The check guard() puts before set, append and delete: the error it throws,
\* "none" when it calls the method. An unguarded Headers has mode "none".
guard(m, name) ==
    IF m = "immutable" THEN "Headers instance is immutable"
    ELSE IF m = "request" /\ ToLowerCase(name) \in FORBIDDEN_REQUEST_HEADER_NAMES
    THEN "forbidden header name"
    ELSE IF m = "response" /\ ToLowerCase(name) \in FORBIDDEN_RESPONSE_HEADER_NAMES
    THEN "forbidden header name"
    ELSE "none"

EmptyHeaders == <<>>

\* The prototype of the object Headers.headers: Object.prototype at first. The
\* assignment this.headers["__proto__"] = [value] creates no own property, it
\* makes the array the prototype of the object.
ObjectPrototype == [array |-> FALSE, values |-> <<>>]

\* Headers.has
HeadersHas(h, name) ==
    LET key == ToLowerCase(name) IN \E i \in 1..Len(h) : h[i].name = key

\* Headers.set, after validation: the own properties afterwards.
HeadersSet(h, name, value) ==
    LET key == ToLowerCase(name) IN
    IF key = "__proto__" THEN h
    ELSE IF HeadersHas(h, name)
    THEN [i \in 1..Len(h) |->
            IF h[i].name = key
            THEN [name |-> h[i].name, values |-> <<value>>]
            ELSE h[i]]
    ELSE Append(h, [name |-> key, values |-> <<value>>])

\* Headers.set, after validation: the prototype afterwards.
PrototypeSet(p, name, value) ==
    IF ToLowerCase(name) = "__proto__" THEN [array |-> TRUE, values |-> <<value>>]
    ELSE p

HeadersAppendOverwrites(h, name, value) == HeadersSet(h, name, value)

\* Headers.append, after validation: the own properties afterwards.
HeadersAppend(h, name, value) ==
    LET key == ToLowerCase(name) IN
    IF ~HeadersHas(h, name)
    THEN HeadersSet(h, name, value)
    ELSE [i \in 1..Len(h) |->
            IF h[i].name = key
            THEN [name |-> h[i].name, values |-> Append(h[i].values, value)]
            ELSE h[i]]

\* Headers.append, after validation: the prototype afterwards.
PrototypeAppend(h, p, name, value) ==
    IF ~HeadersHas(h, name) THEN PrototypeSet(p, name, value) ELSE p

\* Headers.delete, after validation: the own properties afterwards.
HeadersDelete(h, name) ==
    LET key == ToLowerCase(name)
        kept(e) == e.name # key
    IN SelectSeq(h, kept)

\* Headers.get, after validation: this.headers[key] is the own property, or
\* for "__proto__" the prototype; the names used here are no other property
\* of a prototype.
HeadersGet(h, p, name) ==
    LET key == ToLowerCase(name) IN
    IF HeadersHas(h, name)
    THEN (LET i == CHOOSE k \in 1..Len(h) : h[k].name = key IN h[i].values[1])
    ELSE IF key = "__proto__" /\ p.array THEN p.values[1]
    ELSE "undefined"

\* Headers.getAll, after validation.
HeadersGetAll(h, name) ==
    LET key == ToLowerCase(name) IN
    IF ~HeadersHas(h, name) THEN <<>>
    ELSE LET i == CHOOSE k \in 1..Len(h) : h[k].name = key IN h[i].values

\* Headers.forEach: the (name, value) pairs in the order the callback sees them.
RECURSIVE HeadersPairs(_)
HeadersPairs(h) ==
    IF h = <<>> THEN <<>>
    ELSE [i \in 1..Len(h[1].values) |-> [name |-> h[1].name, value |-> h[1].values[i]]]
           \o HeadersPairs(Tail(h))

\* appendValues over a list of (name, value) pairs: addHeadersObject on a
\* mapping of names to strings, addHeadersInstance on the pairs of a Headers.
RECURSIVE addHeaders(_, _)
addHeaders(instance, pairs) ==
    IF pairs = <<>> THEN instance
    ELSE addHeaders(HeadersAppend(instance, pairs[1].name, pairs[1].value), Tail(pairs))

\* A header value given to a constructor: a string, a number (NaN included),
\* a value of another type, or a list of such values.
Str(text) == [type |-> "string", text |-> text, num |-> 0, nan |-> FALSE, items |-> <<>>]
Num(num) == [type |-> "number", text |-> "", num |-> num, nan |-> FALSE, items |-> <<>>]
NaN == [type |-> "number", text |-> "", num |-> 0, nan |-> TRUE, items |-> <<>>]
True == [type |-> "boolean", text |-> "", num |-> 0, nan |-> FALSE, items |-> <<>>]
List(items) == [type |-> "array", text |-> "", num |-> 0, nan |-> FALSE, items |-> items]

\* Number.prototype.toString of an integer, digit by digit.
RECURSIVE NumberToString(_)
NumberToString(num) ==
    IF num < 0 THEN "-" \o NumberToString(0 - num)
    ELSE IF num < 10 THEN CharAt("0123456789", num + 1)
    ELSE NumberToString(num \div 10) \o CharAt("0123456789", (num % 10) + 1)

\* instance.append(key, value) while a Headers is filled: the own properties
\* afterwards, or the error the validation throws.
appendTo(instance, key, value) ==
    IF validateName(key) # "none" THEN [headers |-> instance, error |-> validateName(key)]
    ELSE IF validateValue(value) # "none"
    THEN [headers |-> instance, error |-> validateValue(value)]
    ELSE [headers |-> HeadersAppend(instance, key, value), error |-> "none"]

\* appendValues: on a list the callback of forEach calls appendValues with
\* the list again, not with the item, so a list with an item never reaches a
\* string or a number and the call stack runs out; an empty list adds nothing.
appendValues(instance, key, value) ==
    IF value.type = "array"
    THEN IF value.items = <<>> THEN [headers |-> instance, error |-> "none"]
         ELSE [headers |-> instance, error |-> "Maximum call stack size exceeded"]
    ELSE IF value.type = "string" THEN appendTo(instance, key, value.text)
    ELSE IF value.type = "number" /\ ~value.nan
    THEN appendTo(instance, key, NumberToString(value.num))
    ELSE [headers |-> instance, error |-> "none"]

\* addHeadersObject over the entries of a mapping, in the order of Object.keys.
RECURSIVE addHeadersObject(_, _)
addHeadersObject(instance, entries) ==
    IF entries = <<>> THEN [headers |-> instance, error |-> "none"]
    ELSE LET first == appendValues(instance, entries[1].name, entries[1].value) IN
         IF first.error # "none" THEN first
         ELSE addHeadersObject(first.headers, Tail(entries))

\* The callback addHeadersArray runs on every pair: [key, value, ...rest]; a
\* missing key or value is undefined, and appendValues ignores an undefined value.
RECURSIVE addPairs(_, _)
addPairs(instance, pairs) ==
    IF pairs = <<>> THEN [headers |-> instance, error |-> "none"]
    ELSE LET pair == pairs[1]
             first == IF Len(pair) > 2
                      THEN [headers |-> instance,
                            error |-> "Each header pair must be a name/value tuple"]
                      ELSE IF Len(pair) < 2 THEN [headers |-> instance, error |-> "none"]
                      ELSE appendValues(instance, pair[1].text, pair[2])
         IN IF first.error # "none" THEN first
            ELSE addPairs(first.headers, Tail(pairs))

\* addHeadersArray on an iterable whose elements are lists (each iterable).
addHeadersArray(instance, pairs) == addPairs(instance, pairs)

\* new Headers(init): addHeaders on a fresh instance, for a missing init, a
\* mapping and an iterable of pairs.
NewHeaders(init) ==
    IF init.kind = "undefined" THEN [headers |-> EmptyHeaders, error |-> "none"]
    ELSE IF init.kind = "array" THEN addHeadersArray(EmptyHeaders, init.pairs)
    ELSE addHeadersObject(EmptyHeaders, init.entries)

\* The arguments given to new Headers(init).
MaxLeaves == 2
MaxPairs == 2

Leaves == {Str("v"), Str("w"), Num(7), NaN, True}

EntryValues == Leaves \cup {List(items) : items \in SeqsUpTo(Leaves, MaxLeaves)}

Mapping(entries) == [kind |-> "object", entries |-> entries, pairs |-> <<>>]
Iterable(pairs) == [kind |-> "array", entries |-> <<>>, pairs |-> pairs]
Missing == [kind |-> "undefined", entries |-> <<>>, pairs |-> <<>>]

Mappings ==
    {Mapping(<<[name |-> "Link", value |-> value]>>) : value \in EntryValues}
      \cup {Mapping(<<[name |-> "Link", value |-> value], [name |-> "Accept", value |-> Num(42)]>>) :
              value \in EntryValues}

Pairs ==
    {<<>>, <<Str("Link")>>, <<Str("Link"), Str("v")>>, <<Str("Accept"), Num(7)>>,
     <<Str("Link"), List(<<>>)>>, <<Str("Link"), Str("v"), Str("w")>>}

Iterables == {Iterable(pairs) : pairs \in SeqsUpTo(Pairs, MaxPairs)}

HeadersArguments == {Missing} \cup Mappings \cup Iterables

\* The call new Headers(made.init).
Construct ==
    /\ made.op = "none"
    /\ LET built == NewHeaders(made.init) IN
       /\ headers' = built.headers
       /\ made' = [op |-> "Headers", init |-> made.init, error |-> built.error]
    /\ UNCHANGED <<prototype, mode, call, bodyVars, builderVars>>
    /\ UNCHANGED <<editableStatus, editableStatusText, type, redirected, partial>>

\* The error a guarded or unguarded mutation raises before it changes anything.
Refusal(name, value) ==
    IF guard(mode, name) # "none" THEN guard(mode, name)
    ELSE IF validateName(name) # "none" THEN validateName(name)
    ELSE validateValue(value)

Called(op, name, value, error) ==
    [op |-> op, name |-> name, value |-> value, error |-> error]

\* headers.set(name, value)
SetHeader(name, value) ==
    LET error == Refusal(name, value) IN
    /\ IF error # "none"
       THEN UNCHANGED <<headers, prototype>>
       ELSE /\ headers' = HeadersSet(headers, name, value)
            /\ prototype' = PrototypeSet(prototype, name, value)
    /\ Len(HeadersPairs(headers')) <= MaxValues
    /\ call' = Called("set", name, value, error)
    /\ UNCHANGED <<mode, bodyVars, builderVars, responseVars>>

\* headers.append(name, value)
AppendHeader(name, value) ==
    LET error == Refusal(name, value) IN
    /\ IF error # "none"
       THEN UNCHANGED <<headers, prototype>>
       ELSE /\ headers' = HeadersAppend(headers, name, value)
            /\ prototype' = PrototypeAppend(headers, prototype, name, value)
    /\ Len(HeadersPairs(headers')) <= MaxValues
    /\ call' = Called("append", name, value, error)
    /\ UNCHANGED <<mode, bodyVars, builderVars, responseVars>>

\* headers.delete(name)
DeleteHeader(name) ==
    LET error == Refusal(name, "") IN
    /\ IF error # "none"
       THEN UNCHANGED headers
       ELSE headers' = HeadersDelete(headers, name)
    /\ call' = Called("delete", name, "", error)
    /\ UNCHANGED <<prototype, mode, bodyVars, builderVars, responseVars>>

\* ---------------------------------------------- response.ts, partial-response.ts
Undefined == [kind |-> "undefined", val |-> ""]
Buffer(val) == [kind |-> "buffer", val |-> val]
Text(val) == [kind |-> "text", val |-> val]
ArrayBuffer(val) == [kind |-> "arrayBuffer", val |-> val]
FormData(val) == [kind |-> "formData", val |-> val]
Blob(val) == [kind |-> "blob", val |-> val]
Readable(val) == [kind |-> "readable", val |-> val]

NullBodyStatus == {"101", "204", "205", "304"}

TruthyAlways(body) == TRUE

\* Whether a body argument is truthy.
Truthy(body) == body.kind # "undefined" /\ ~(body.kind = "text" /\ body.val = "")

NoInit == [given |-> FALSE, status |-> "undefined", statusText |-> "undefined",
           headers |-> <<>>]
ResponseInit(status, statusText, headersInit) ==
    [given |-> TRUE, status |-> status, statusText |-> statusText, headers |-> headersInit]

\* A Blob with a media type, and an URLSearchParams (it exists only in a host
\* with support.searchParams).
TypedBlob(val, mediaType) == [kind |-> "blob", val |-> val, type |-> mediaType]
SearchParams(val) == [kind |-> "searchParams", val |-> val]

\* blob.type: empty when the Blob was made without one.
BlobType(body) == IF "type" \in DOMAIN body THEN body.type ELSE ""

\* getBody on a constructor argument: an URLSearchParams becomes its text,
\* the other arguments are kept under their own tag.
getBody(body) ==
    IF body.kind = "searchParams" THEN Text(body.val) ELSE body

\* The Body constructor's headers: a copy of the given ones and, when they
\* hold no content-type and there is a body, the content-type inferred by the
\* chain of tests of the constructor: a text representation first, a Blob
\* with a type next, an URLSearchParams argument last.
BodyHeaders(body, headersInit) ==
    LET own == addHeaders(EmptyHeaders, headersInit)
        representation == getBody(body)
    IN
    IF representation.kind = "undefined" \/ HeadersHas(own, "content-type") THEN own
    ELSE IF representation.kind = "text"
    THEN HeadersSet(own, "content-type", "text/plain;charset=UTF-8")
    ELSE IF representation.kind = "blob" /\ BlobType(representation) # ""
    THEN HeadersSet(own, "content-type", BlobType(representation))
    ELSE IF body.kind = "searchParams"
    THEN HeadersSet(own, "content-type", "application/x-www-form-urlencoded;charset=UTF-8")
    ELSE own

\* new Response(body, init); threw tells that the constructor raised.
NewResponse(body, init) ==
    [partial |-> FALSE,
     bodyRepresentation |-> getBody(body),
     headers |-> BodyHeaders(body, init.headers),
     status |-> IF init.given THEN init.status ELSE "200",
     statusText |-> IF init.given THEN init.statusText ELSE "undefined",
     bodyUsedInternal |-> FALSE,
     ignoreConsume |-> FALSE,
     threw |-> init.given /\ init.status # "undefined" /\ Truthy(body)
                 /\ init.status \in NullBodyStatus]

NewPartialResponseAsResponse(body, init) ==
    [NewResponse(body, init) EXCEPT !.partial = TRUE]

\* new PartialResponse(body, init)
NewPartialResponse(body, init) ==
    LET r == NewResponse(body, init) IN
    [r EXCEPT !.partial = TRUE,
              !.status = IF init.given /\ init.status # "undefined"
                         THEN r.status ELSE "undefined",
              !.ignoreConsume = TRUE]

\* The body getter of Body: a stream-backed body and an empty text yield undefined.
BodyValue(r) ==
    IF r.bodyRepresentation.kind = "undefined" THEN Undefined
    ELSE IF r.bodyRepresentation.kind \in {"buffer", "arrayBuffer", "formData", "blob"}
    THEN r.bodyRepresentation
    ELSE IF r.bodyRepresentation.kind = "text" /\ r.bodyRepresentation.val # ""
    THEN r.bodyRepresentation
    ELSE Undefined

\* asReadable(response) as join awaits it inside its try block: the stream it
\* yields (Undefined when it yields nothing or fails) and bodyUsedInternal of
\* the fragment afterwards. With the stream module the stream is a replay of
\* the fragment's stream, without it the fragment's stream itself.
asReadable(r) ==
    LET used == r.bodyUsedInternal \/ ~r.ignoreConsume IN
    IF r.bodyRepresentation.kind = "undefined" \/ r.bodyUsedInternal
    THEN [body |-> Undefined, used |-> r.bodyUsedInternal]
    ELSE IF ~support.buffer \/ r.bodyRepresentation.kind # "readable"
    THEN [body |-> Undefined, used |-> used]
    ELSE IF ~r.ignoreConsume \/ streamModule
    THEN [body |-> r.bodyRepresentation, used |-> used]
    ELSE [body |-> r.bodyRepresentation, used |-> TRUE]

\* ------------------------------------------------- a Response under observation
\* The bytes of a body value whose characters are '1' and '{', and back.
BytesOf(val) == [i \in 1..Len(val) |-> IF CharAt(val, i) = "1" THEN 1 ELSE 2]

RECURSIVE TextOf(_)
TextOf(bytes) ==
    IF bytes = <<>> THEN ""
    ELSE (IF Head(bytes) = 1 THEN "1" ELSE "{") \o TextOf(Tail(bytes))

\* Number(status) for a status written in digits.
RECURSIVE StatusNumber(_)
StatusNumber(digits) ==
    IF digits = "" THEN 0
    ELSE 10 * StatusNumber(SubSeq(digits, 1, Len(digits) - 1))
           + (CHOOSE d \in 0..9 : CharAt("0123456789", d + 1) = CharAt(digits, Len(digits)))

\* Response.ok: a comparison with an undefined status is false.
ok ==
    /\ editableStatus # "undefined"
    /\ StatusNumber(editableStatus) >= 200
    /\ StatusNumber(editableStatus) < 300

\* Whether an object is under observation: a construction was made and did
\* not throw.
Exists == made.op # "none" /\ made.error = "none"

\* The object a constructor returned becomes the one under observation. The
\* Body constructor always makes its own, unguarded, Headers of the headers
\* it is given.
Install(r) ==
    /\ bodyRepresentation' = IF r.bodyRepresentation.kind = "undefined" THEN {}
                             ELSE {r.bodyRepresentation.kind}
    /\ source' = BytesOf(r.bodyRepresentation.val)
    /\ bodyUsedInternal' = r.bodyUsedInternal
    /\ ignoreConsume' = r.ignoreConsume
    /\ readableReplay' = "unset"
    /\ replayStarts' = 0
    /\ initial' = [pos |-> 0, flowing |-> FALSE, ended |-> FALSE, errored |-> FALSE]
    /\ chunks' = <<>>
    /\ ended' = FALSE
    /\ recording' = FALSE
    /\ replayError' = FALSE
    /\ calls' = <<>>
    /\ headers' = r.headers
    /\ prototype' = ObjectPrototype
    /\ mode' = "none"
    /\ editableStatus' = r.status
    /\ editableStatusText' = r.statusText
    /\ partial' = r.partial
    /\ UNCHANGED <<support, streamModule, call, builderVars>>

\* A constructor threw: nothing is under observation.
Thrown == UNCHANGED <<bodyVars, headersVars, builderVars, editableStatus,
                      editableStatusText, type, redirected, partial>>

\* Whether the host can hold a body argument.
Holds(body) ==
    body.kind = "undefined" \/ {getBody(body).kind} \in Representations(support)

\* new Response(body, init)
New(body, init) ==
    /\ made.op = "none"
    /\ Holds(body)
    /\ LET r == NewResponse(body, init) IN
       IF r.threw
       THEN /\ made' = [op |-> "Response", body |-> body, init |-> init,
                        error |-> "Body provided for a null-body status"]
            /\ Thrown
       ELSE /\ made' = [op |-> "Response", body |-> body, init |-> init, error |-> "none"]
            /\ Install(r)
            /\ type' = "default"
            /\ redirected' = FALSE

\* new PartialResponse(body, init)
NewPartial(body, init) ==
    /\ made.op = "none"
    /\ Holds(body)
    /\ LET r == NewPartialResponse(body, init) IN
       IF r.threw
       THEN /\ made' = [op |-> "PartialResponse", body |-> body, init |-> init,
                        error |-> "Body provided for a null-body status"]
            /\ Thrown
       ELSE /\ made' = [op |-> "PartialResponse", body |-> body, init |-> init,
                        error |-> "none"]
            /\ Install(r)
            /\ type' = "default"
            /\ redirected' = FALSE

\* Response.error(): the init holds headers only, those of
\* Headers.guarded(undefined, "immutable").
Error ==
    /\ made.op = "none"
    /\ LET guarded == addHeaders(EmptyHeaders, <<>>)
           r == NewResponse(Undefined,
                    ResponseInit("undefined", "undefined", HeadersPairs(guarded)))
       IN /\ made' = [op |-> "error", error |-> "none"]
          /\ Install(r)
          /\ type' = "error"
          /\ redirected' = FALSE

\* new URL(url, "https://fetch.spec.whatwg.org").toString() for an absolute
\* https URL (scheme and host are lower-cased, a missing path becomes "/"), a
\* path that starts at the root, and a relative path.
BaseUrl == "https://fetch.spec.whatwg.org"

RECURSIVE HostEnd(_, _)
HostEnd(url, i) ==
    IF i > Len(url) \/ CharAt(url, i) = "/" THEN i - 1 ELSE HostEnd(url, i + 1)

ParsedUrl(url) ==
    IF Len(url) >= 8 /\ toLowerCase(SubSeq(url, 1, 8)) = "https://"
    THEN LET end == HostEnd(url, 9) IN
         toLowerCase(SubSeq(url, 1, end))
           \o (IF end = Len(url) THEN "/" ELSE SubSeq(url, end + 1, Len(url)))
    ELSE IF Len(url) >= 1 /\ CharAt(url, 1) = "/" THEN BaseUrl \o url
    ELSE BaseUrl \o "/" \o url

RedirectStatus == {"301", "302", "303", "307", "308"}

redirectAnyStatus(url, status) ==
    LET guarded == addHeaders(EmptyHeaders, <<[name |-> "Location", value |-> ParsedUrl(url)]>>)
    IN [error |-> "none",
        response |-> NewResponse(Undefined,
                        ResponseInit(status, "undefined", HeadersPairs(guarded)))]

\* Response.redirect(url, status): the error it throws, or the response made
\* of the headers of Headers.guarded({ Location }, "immutable") and the status.
redirect(url, status) ==
    LET guarded == addHeaders(EmptyHeaders, <<[name |-> "Location", value |-> ParsedUrl(url)]>>)
    IN IF status \notin RedirectStatus
       THEN [error |-> "RangeError",
             response |-> NewResponse(Undefined, NoInit)]
       ELSE [error |-> "none",
             response |-> NewResponse(Undefined,
                             ResponseInit(status, "undefined", HeadersPairs(guarded)))]

Redirect(url, status) ==
    /\ made.op = "none"
    /\ LET out == redirect(url, status) IN
       /\ made' = [op |-> "redirect", url |-> url, status |-> status, error |-> out.error]
       /\ IF out.error # "none" THEN Thrown
          ELSE /\ Install(out.response)
               /\ type' = "default"
               /\ redirected' = TRUE

\* The response under observation, as the record of its fields.
This ==
    [partial |-> partial,
     bodyRepresentation |->
        IF bodyRepresentation = {} THEN Undefined
        ELSE [kind |-> CHOOSE tag \in bodyRepresentation : TRUE, val |-> TextOf(source)],
     headers |-> headers,
     status |-> editableStatus,
     statusText |-> editableStatusText,
     bodyUsedInternal |-> bodyUsedInternal,
     ignoreConsume |-> ignoreConsume,
     threw |-> FALSE]

\* response.clone(): new Response(this.body, this); the clone becomes the
\* response under observation, made.before keeps what the original was.
Clone ==
    /\ Exists
    /\ LET r == NewResponse(BodyValue(This),
                    ResponseInit(This.status, This.statusText, HeadersPairs(This.headers)))
           before == [bodyUsed |-> bodyUsedInternal, status |-> editableStatus,
                      statusText |-> editableStatusText, headers |-> headers,
                      bodyRepresentation |-> bodyRepresentation, source |-> source]
       IN IF r.threw
          THEN /\ made' = [op |-> "clone", before |-> before,
                           error |-> "Body provided for a null-body status"]
               /\ Thrown
          ELSE /\ made' = [op |-> "clone", before |-> before, error |-> "none"]
               /\ Install(r)
               /\ type' = "default"
               /\ redirected' = FALSE

\* ------------------------------------------------------- response-builder.ts
\* An absent fragment, recorded by with() as a positional gap.
Gap == [gap |-> TRUE]

\* The fragments of the README's example.
Acl == NewPartialResponse(Undefined,
          ResponseInit("undefined", "undefined", <<[name |-> "Link", value |-> "<.acl>"]>>))
Up == NewPartialResponse(Undefined,
          ResponseInit("undefined", "undefined", <<[name |-> "Link", value |-> "<../>"]>>))
Hey1 == NewResponse(Buffer("Hey! 1"), NoInit)
NextLink == NewPartialResponse(Undefined,
          ResponseInit("undefined", "undefined", <<[name |-> "Link", value |-> "<./next>"]>>))
Hey2 == NewResponse(Buffer("Hey! 2"), NoInit)

Fragments == {Acl, Up, Hey1, NextLink, Hey2}

\* A fragment whose body was read before it was handed to the builder.
Used(r) == [r EXCEPT !.bodyUsedInternal = TRUE]

\* Partial fragments that carry a body, a status, both or neither.
Created == NewPartialResponse(Text("a"), ResponseInit("201", "Created", <<>>))
Plain == NewPartialResponse(Text("b"), NoInit)
Streamed == NewPartialResponse(Readable("s"),
              ResponseInit("202", "Accepted", <<[name |-> "Link", value |-> "<./next>"]>>))
NoContent == NewPartialResponse(Undefined, ResponseInit("204", "No Content", <<>>))

\* The body values getBody keeps as they are in a host.
FullBodies(host) ==
    {b \in {Text("t"), Buffer("b"), ArrayBuffer("ab"), Blob("bl"), FormData("f"),
            Readable("r")} : {b.kind} \in Representations(host)}

\* The full fragments of a host, one per body representation, and one that
\* was read before.
Fulls(host) ==
    {NewResponse(b, ResponseInit("201", "Created", <<>>)) : b \in FullBodies(host)}
      \cup {Used(NewResponse(Text("t"), ResponseInit("201", "Created", <<>>)))}

\* The fragments handed to a builder that merges around a full fragment; a
\* partial fragment stays unconsumed when read, unless it is stream-backed and
\* the stream module is missing.
FullFragments ==
    Fulls(support) \cup {Streamed}
      \cup (IF streamModule THEN {} ELSE {Used(Streamed)})

\* The fragments handed to a builder that merges partial fragments only.
PartialFragments == {Created, Plain, Streamed, NoContent}

\* Partial fragments that carry headers only.
Html == NewPartialResponse(Undefined,
          ResponseInit("undefined", "undefined",
                       <<[name |-> "Content-Type", value |-> "text/html"]>>))
Json == NewPartialResponse(Undefined,
          ResponseInit("undefined", "undefined",
                       <<[name |-> "content-type", value |-> "application/json"],
                         [name |-> "Link", value |-> "<.acl>"]>>))

\* A full fragment that carries a header next to the content-type of its body.
Page == NewResponse(Text("t"),
          ResponseInit("200", "OK", <<[name |-> "Link", value |-> "<./page>"]>>))

\* The fragments handed to a builder whose merge of headers is followed.
HeaderFragments == {Acl, Up, Html, Json, Created, Page}

IsPartial(r) == r # Gap /\ r.partial
IsFull(r) == r # Gap /\ ~r.partial

\* The README's example, in the order of its with() calls.
Example == <<Acl, Up, Hey1, NextLink, Hey2>>

replacedDiscardsAll(list) == <<>>

replacedKeepsAll(list) == list

\* withSingle under replaceSubsequentFullResponses: the list after the filter.
replaced(list) == SelectSeq(list, IsPartial)

withSingleAcceptsAll(r) ==
    [error |-> "none",
     editableResponses |-> Append(editableResponses, r),
     fullResponseAppended |-> fullResponseAppended \/ IsFull(r),
     contaminated |-> contaminated \/ r # Gap]

withSingleIgnoreContaminates(r) ==
    IF IsFull(r) /\ fullResponseAppended /\ ignoreSubsequentFullResponses
    THEN [error |-> "none",
          editableResponses |-> editableResponses,
          fullResponseAppended |-> fullResponseAppended,
          contaminated |-> TRUE]
    ELSE withSingleAcceptsAll(r)

\* ResponseBuilder.withSingle: the error it raises, if any, and the fields
\* of the builder afterwards.
withSingle(r) ==
    LET same == [error |-> "none",
                 editableResponses |-> editableResponses,
                 fullResponseAppended |-> fullResponseAppended,
                 contaminated |-> contaminated]
        push(list, full) == [error |-> "none",
                 editableResponses |-> Append(list, r),
                 fullResponseAppended |-> full,
                 contaminated |-> TRUE]
    IN
    IF r = Gap
    THEN [same EXCEPT !.editableResponses = Append(editableResponses, r)]
    ELSE IF r.partial
    THEN push(editableResponses, fullResponseAppended)
    ELSE IF fullResponseAppended /\ ignoreSubsequentFullResponses
    THEN same
    ELSE IF fullResponseAppended /\ replaceSubsequentFullResponses
    THEN IF \E i \in 1..Len(editableResponses) : editableResponses[i] = Gap
         THEN [same EXCEPT !.error = "TypeError"]
         ELSE push(replaced(editableResponses), fullResponseAppended)
    ELSE IF fullResponseAppended
    THEN [same EXCEPT !.error = "already contains a full response"]
    ELSE push(editableResponses, TRUE)

\* ResponseBuilder.clear: the fields of the builder afterwards.
clear ==
    [editableResponses |-> <<>>,
     response |-> [state |-> "undefined"],
     contaminated |-> FALSE,
     fullResponseAppended |-> fullResponseAppended]

\* The entity-header names join uses when the entityHeaders field is unset.
DefaultEntityHeaders ==
    {"content-type", "content-length", "content-encoding", "content-disposition",
     "content-language", "content-location"}

forEachHeaderAppends(instance, pairs) == addHeaders(instance, pairs)

\* The callback addResponse passes to response.headers.forEach, over the
\* (name, value) pairs of a fragment: set for an entity header under
\* useSetForEntityHeaders, append otherwise.
RECURSIVE forEachHeader(_, _)
forEachHeader(instance, pairs) ==
    IF pairs = <<>> THEN instance
    ELSE LET name == pairs[1].name
             names == IF entityHeaders.given THEN entityHeaders.names
                      ELSE DefaultEntityHeaders
         IN forEachHeader(
              IF useSetForEntityHeaders /\ ToLowerCase(name) \in names
              THEN HeadersSet(instance, name, pairs[1].value)
              ELSE HeadersAppend(instance, name, pairs[1].value),
              Tail(pairs))

\* Whether addResponse calls asReadable on a fragment.
forced(r, hasFull) ==
    /\ ~hasFull /\ ~r.bodyUsedInternal
    /\ BodyValue(r) = Undefined /\ ~disableReadableCheck

\* join's addResponse over the fragments in order: the headers collected and
\* the body, status and statusText chosen so far.
RECURSIVE addResponse(_, _, _)
addResponse(responses, hasFull, acc) ==
    IF responses = <<>> THEN acc
    ELSE LET r == responses[1]
             merged == [acc EXCEPT !.headers = forEachHeader(acc.headers, HeadersPairs(r.headers))]
             currentBody == IF forced(r, hasFull) THEN asReadable(r).body
                            ELSE BodyValue(r)
         IN addResponse(Tail(responses), hasFull,
              IF hasFull \/ r.bodyUsedInternal \/ currentBody = Undefined
              THEN merged
              ELSE IF r.status # "undefined"
              THEN [merged EXCEPT !.body = currentBody, !.status = r.status,
                                  !.statusText = r.statusText]
              ELSE [merged EXCEPT !.body = currentBody])

joinNeverFails(responses) ==
    LET fulls == SelectSeq(responses, IsFull)
        hasFull == fulls # <<>>
        seed == IF hasFull
                THEN [headers |-> EmptyHeaders, body |-> BodyValue(fulls[1]),
                      status |-> fulls[1].status, statusText |-> fulls[1].statusText]
                ELSE [headers |-> EmptyHeaders, body |-> Undefined,
                      status |-> "undefined", statusText |-> "undefined"]
        acc == addResponse(responses, hasFull, seed)
        built == NewResponse(acc.body, ResponseInit(acc.status, acc.statusText, HeadersPairs(acc.headers)))
    IN [state |-> "fulfilled", body |-> built.bodyRepresentation, status |-> built.status,
        statusText |-> built.statusText, headers |-> built.headers]

\* ResponseBuilder.join on the fragments without the gaps: the settled promise
\* (no processHeaders hook is configured).
join(responses) ==
    LET fulls == SelectSeq(responses, IsFull)
        hasFull == fulls # <<>>
        seed == IF hasFull
                THEN [headers |-> EmptyHeaders, body |-> BodyValue(fulls[1]),
                      status |-> fulls[1].status, statusText |-> fulls[1].statusText]
                ELSE [headers |-> EmptyHeaders, body |-> Undefined,
                      status |-> "undefined", statusText |-> "undefined"]
        acc == addResponse(responses, hasFull, seed)
        built == NewResponse(acc.body, ResponseInit(acc.status, acc.statusText, HeadersPairs(acc.headers)))
    IN
    IF hasFull /\ fulls[1].bodyUsedInternal
    THEN [state |-> "rejected", error |-> "body was already used"]
    ELSE IF built.threw
    THEN [state |-> "rejected", error |-> "Body provided for a null-body status"]
    ELSE [state |-> "fulfilled", body |-> built.bodyRepresentation, status |-> built.status,
          statusText |-> built.statusText, headers |-> built.headers]

\* The fragments after join: a fragment on which addResponse called asReadable
\* has the bodyUsedInternal that call left.
joined(list) ==
    LET hasFull == \E i \in 1..Len(list) : IsFull(list[i])
        rejected == hasFull /\ SelectSeq(list, IsFull)[1].bodyUsedInternal
    IN [i \in 1..Len(list) |->
          IF list[i] # Gap /\ ~rejected /\ forced(list[i], hasFull)
          THEN [list[i] EXCEPT !.bodyUsedInternal = asReadable(list[i]).used]
          ELSE list[i]]

NotGap(r) == r # Gap

buildKeepsCache ==
    IF response.state # "undefined"
    THEN [response |-> response, contaminated |-> contaminated, cached |-> TRUE,
          editableResponses |-> editableResponses]
    ELSE [response |-> join(SelectSeq(editableResponses, NotGap)),
          contaminated |-> FALSE, cached |-> FALSE,
          editableResponses |-> joined(editableResponses)]

\* ResponseBuilder.build: the promise returned and the fields afterwards.
build ==
    IF ~contaminated /\ response.state # "undefined"
    THEN [response |-> response, contaminated |-> contaminated, cached |-> TRUE,
          editableResponses |-> editableResponses]
    ELSE [response |-> join(SelectSeq(editableResponses, NotGap)),
          contaminated |-> FALSE, cached |-> FALSE,
          editableResponses |-> joined(editableResponses)]

Before ==
    [editableResponses |-> editableResponses, contaminated |-> contaminated,
     response |-> response, fullResponseAppended |-> fullResponseAppended]

\* The fragment withHeaders makes of one argument.
withHeaders(pairs) ==
    NewPartialResponse(Undefined,
        ResponseInit("undefined", "undefined",
                     HeadersPairs(addHeaders(EmptyHeaders, pairs))))

\* builder.with(r) for one fragment or an absent one.
withCall(r) ==
    /\ LET w == withSingle(r) IN
       /\ editableResponses' = w.editableResponses
       /\ fullResponseAppended' = w.fullResponseAppended
       /\ contaminated' = w.contaminated
       /\ last' = [op |-> "with", arg |-> r, error |-> w.error, before |-> Before]
    /\ UNCHANGED <<configVars, response>>
    /\ UNCHANGED <<bodyVars, headersVars, responseVars>>

With(r) ==
    /\ Len(withSingle(r).editableResponses) <= MaxFrags
    /\ withCall(r)
    /\ UNCHANGED script

\* builder.withHeaders(h) for one argument: an absent argument is filtered
\* out, so that with() is called without fragments.
WithHeaders(h) ==
    IF h.given
    THEN With(withHeaders(h.pairs))
    ELSE /\ last' = [op |-> "withHeaders", arg |-> Gap, error |-> "none", before |-> Before]
         /\ UNCHANGED <<configVars, editableResponses, fullResponseAppended,
                        contaminated, response, script>>
         /\ UNCHANGED <<bodyVars, headersVars, responseVars>>

\* The arguments given to withHeaders.
HeadersInits ==
    {[given |-> FALSE, pairs |-> <<>>],
     [given |-> TRUE, pairs |-> <<[name |-> "Link", value |-> "<.acl>"]>>],
     [given |-> TRUE, pairs |-> <<[name |-> "Link", value |-> "<../>"]>>]}

\* The next with() call of the README's example.
ExampleWith ==
    /\ script < Len(Example)
    /\ withCall(Example[script + 1])
    /\ script' = script + 1

\* builder.clear()
Clear ==
    /\ editableResponses' = clear.editableResponses
    /\ response' = clear.response
    /\ contaminated' = clear.contaminated
    /\ fullResponseAppended' = clear.fullResponseAppended
    /\ last' = [op |-> "clear", arg |-> Gap, error |-> "none", before |-> Before]
    /\ UNCHANGED <<configVars, script>>
    /\ UNCHANGED <<bodyVars, headersVars, responseVars>>

\* builder.clear().with(...L.reverse()) for L = builder.responses, on a list of
\* partial fragments: every withSingle call appends its fragment.
Reversed ==
    /\ editableResponses # <<>>
    /\ \A i \in 1..Len(editableResponses) : IsPartial(editableResponses[i])
    /\ editableResponses' =
          [i \in 1..Len(editableResponses) |->
              editableResponses[Len(editableResponses) + 1 - i]]
    /\ response' = clear.response
    /\ contaminated' = TRUE
    /\ fullResponseAppended' = clear.fullResponseAppended
    /\ last' = [op |-> "reversed", arg |-> Gap, error |-> "none", before |-> Before]
    /\ UNCHANGED <<configVars, script>>
    /\ UNCHANGED <<bodyVars, headersVars, responseVars>>

\* builder.build()
Build ==
    /\ response' = build.response
    /\ contaminated' = build.contaminated
    /\ editableResponses' = build.editableResponses
    /\ last' = [op |-> IF build.cached THEN "build cached" ELSE "build",
                arg |-> Gap, error |-> "none", before |-> Before]
    /\ UNCHANGED <<configVars, fullResponseAppended, script>>
    /\ UNCHANGED <<bodyVars, headersVars, responseVars>>

\* ------------------------------------------------------------ specifications
BodyInit ==
    /\ support \in Hosts
    /\ streamModule \in BOOLEAN
    /\ bodyRepresentation \in Representations(support)
    /\ source \in SeqsUpTo(Bytes, MaxChunks)
    /\ bodyUsedInternal = FALSE
    /\ ignoreConsume = FALSE
    /\ readableReplay = "unset"
    /\ replayStarts = 0
    /\ initial = [pos |-> 0, flowing |-> FALSE, ended |-> FALSE, errored |-> FALSE]
    /\ chunks = <<>>
    /\ ended = FALSE
    /\ recording = FALSE
    /\ replayError = FALSE
    /\ calls = <<>>

NoEntityHeaders == [given |-> FALSE, names |-> {}]

\* The options objects given to the constructor.
Options(policies, checks, sets, lists) ==
    {o \in [ignoreSubsequentFullResponses : policies,
            replaceSubsequentFullResponses : policies,
            disableReadableCheck : checks,
            useSetForEntityHeaders : sets,
            entityHeaders : lists] :
        ~(o.ignoreSubsequentFullResponses /\ o.replaceSubsequentFullResponses)}

\* new ResponseBuilder(o): both policies set is refused by the constructor;
\* the constructor stores every option but entityHeaders.
Constructed(o) ==
    /\ options = o
    /\ ignoreSubsequentFullResponses = o.ignoreSubsequentFullResponses
    /\ replaceSubsequentFullResponses = o.replaceSubsequentFullResponses
    /\ disableReadableCheck = o.disableReadableCheck
    /\ useSetForEntityHeaders = o.useSetForEntityHeaders
    /\ entityHeaders = NoEntityHeaders
    /\ editableResponses = <<>>
    /\ fullResponseAppended = FALSE
    /\ contaminated = FALSE
    /\ response = [state |-> "undefined"]
    /\ script = 0
    /\ last = [op |-> "new", arg |-> Gap, error |-> "none",
               before |-> [editableResponses |-> <<>>, contaminated |-> FALSE,
                           response |-> [state |-> "undefined"],
                           fullResponseAppended |-> FALSE]]

\* A builder made with a merge policy, or with none, and no other option.
BuilderInit ==
    \E o \in Options(BOOLEAN, {FALSE}, {FALSE}, {NoEntityHeaders}) : Constructed(o)

\* A builder made with or without disableReadableCheck, and no merge policy.
MergeInit ==
    \E o \in Options({FALSE}, BOOLEAN, {FALSE}, {NoEntityHeaders}) : Constructed(o)

\* A custom entity-header list.
CustomEntityHeaders == [given |-> TRUE, names |-> {"link"}]

\* A builder made with or without useSetForEntityHeaders, with or without a
\* custom entity-header list, and no merge policy.
HeaderMergeInit ==
    \E o \in Options({FALSE}, {FALSE}, BOOLEAN, {NoEntityHeaders, CustomEntityHeaders}) :
        Constructed(o)

\* The objects given to new Headers(init) and Headers.guarded(init, mode).
Inits ==
    {<<>>,
     <<[name |-> "Set-Cookie", value |-> "v"], [name |-> "content-length", value |-> "w"]>>}

Modes == {"none", "immutable", "request", "response"}

\* new Headers(init) for mode "none", Headers.guarded(init, m) otherwise: the
\* instance is filled before its methods are guarded.
HeadersNew(init, m) ==
    /\ headers = addHeaders(EmptyHeaders, init)
    /\ prototype = ObjectPrototype
    /\ mode = m
    /\ call = [op |-> "new", name |-> "", value |-> "", error |-> "none"]

HeadersInit == \E init \in Inits, m \in Modes : HeadersNew(init, m)

HeadersIdle == HeadersNew(<<>>, "none")

BuilderIdle ==
    /\ BuilderInit
    /\ ~ignoreSubsequentFullResponses /\ ~replaceSubsequentFullResponses

BodyIdle ==
    /\ BodyInit
    /\ support = [buffer |-> TRUE, arrayBuffer |-> TRUE, blob |-> FALSE, formData |-> FALSE]
    /\ streamModule /\ bodyRepresentation = {} /\ source = <<>>

BodyNext ==
    \/ \E acc \in Accessors : Accessor(acc)
    \/ IgnoreBodyUsed
    \/ createReplayReadable
    \/ \E i \in 1..MaxCalls : Resume(i)
    \/ Data
    \/ End
    \/ ErrorEvent

\* No response under observation.
ResponseIdle ==
    /\ editableStatus = "undefined"
    /\ editableStatusText = "undefined"
    /\ type = "default"
    /\ redirected = FALSE
    /\ partial = FALSE
    /\ made = [op |-> "none"]

\* A body under use, beside a builder that is left alone.
BodyStart == BodyInit /\ BuilderIdle /\ HeadersIdle /\ ResponseIdle

BodySpec == BodyStart /\ [][BodyNext]_vars

\* A stream-backed body under use.
StreamStart == BodyStart /\ bodyRepresentation = {"readable"}

\* The scheduling the host guarantees: a promise reaction that is due runs, and
\* a flowing stream that has not errored emits its next chunk and then its end.
\* Nothing obliges a caller to call, or a stream to fail.
Scheduled ==
    /\ WF_vars(createReplayReadable)
    /\ \A i \in 1..MaxCalls : WF_vars(Resume(i))
    /\ WF_vars(Data)
    /\ WF_vars(End)

StreamSpec == StreamStart /\ [][BodyNext]_vars /\ Scheduled

BuilderNext ==
    \/ \E r \in Fragments \cup {Gap} : With(r)
    \/ \E h \in HeadersInits : WithHeaders(h)
    \/ Clear
    \/ Build

\* A builder under use, beside a body that is left alone.
BuilderStart == BuilderInit /\ BodyIdle /\ HeadersIdle /\ ResponseIdle

BuilderSpec == BuilderStart /\ [][BuilderNext]_vars

\* The README's example: its with() calls in order, build() at any point.
ExampleNext ==
    \/ ExampleWith
    \/ Build

ExampleSpec == BuilderStart /\ [][ExampleNext]_vars

\* A host without a body under use.
HostIdle ==
    /\ BodyInit
    /\ bodyRepresentation = {} /\ source = <<>>

\* The merge around a full fragment: fragments of every body representation of
\* the host, consumed or not.
FullMergeNext ==
    \/ \E r \in FullFragments : With(r)
    \/ Clear
    \/ Build

MergeStart == MergeInit /\ HostIdle /\ HeadersIdle /\ ResponseIdle

FullMergeSpec == MergeStart /\ [][FullMergeNext]_vars

\* The merge of partial fragments that carry a body, a status, both or neither.
PartialMergeNext ==
    \/ \E r \in PartialFragments : With(r)
    \/ Clear
    \/ Reversed
    \/ Build

PartialMergeSpec == MergeStart /\ [][PartialMergeNext]_vars

\* The merge of headers: fragments that carry headers, with and without
\* useSetForEntityHeaders and a custom entity-header list.
HeaderMergeNext ==
    \/ \E r \in HeaderFragments : With(r)
    \/ Clear
    \/ Build

HeaderMergeStart == HeaderMergeInit /\ BodyIdle /\ HeadersIdle /\ ResponseIdle

HeaderMergeSpec == HeaderMergeStart /\ [][HeaderMergeNext]_vars

\* A Headers under use, guarded or not.
HeadersNext ==
    \/ \E name \in Names, value \in Values : SetHeader(name, value)
    \/ \E name \in Names, value \in Values : AppendHeader(name, value)
    \/ \E name \in Names : DeleteHeader(name)

HeadersStart == HeadersInit /\ BodyIdle /\ BuilderIdle /\ ResponseIdle

HeadersSpec == HeadersStart /\ [][HeadersNext]_vars

\* The construction of a Headers from every argument of HeadersArguments.
ConstructInit ==
    /\ headers = EmptyHeaders
    /\ prototype = ObjectPrototype
    /\ mode = "none"
    /\ call = [op |-> "new", name |-> "", value |-> "", error |-> "none"]
    /\ editableStatus = "undefined"
    /\ editableStatusText = "undefined"
    /\ type = "default"
    /\ redirected = FALSE
    /\ partial = FALSE
    /\ made \in {[op |-> "none", init |-> init] : init \in HeadersArguments}

ConstructNext == Construct

ConstructStart == ConstructInit /\ BodyIdle /\ BuilderIdle

ConstructSpec == ConstructStart /\ [][ConstructNext]_vars

\* The arguments given to the constructors of Response and PartialResponse
\* and to Response.redirect.
ResponseBodies ==
    {Undefined, Text(""), Text("1"), Buffer("1"), ArrayBuffer("1"), FormData("1"),
     Blob("1"), TypedBlob("1", "image/png"), SearchParams("1"), Readable("1")}

ResponseInits ==
    {NoInit}
      \cup {ResponseInit(status, statusText, headersInit) :
               status \in {"undefined", "101", "200", "204", "205", "304", "404"},
               statusText \in {"undefined", "OK"},
               headersInit \in {<<>>, <<[name |-> "Content-Type", value |-> "text/html"]>>}}

Urls == {"/next", "next", "https://Example.com", "HTTPS://example.com/a"}

Statuses == {"200", "300", "301", "302", "303", "304", "307", "308"}

\* The names and the value used on the headers of a response.
ResponseNames == {"Location", "Link"}
ResponseValues == {"v"}

\* A response is constructed, by a constructor or a static method, and its
\* headers are then changed.
ResponseNext ==
    \/ \E body \in ResponseBodies, init \in ResponseInits : New(body, init)
    \/ \E body \in ResponseBodies, init \in ResponseInits : NewPartial(body, init)
    \/ Error
    \/ \E url \in Urls, status \in Statuses : Redirect(url, status)
    \/ Exists /\ \E name \in ResponseNames, value \in ResponseValues : SetHeader(name, value)
    \/ Exists /\ \E name \in ResponseNames, value \in ResponseValues : AppendHeader(name, value)
    \/ Exists /\ \E name \in ResponseNames : DeleteHeader(name)

ResponseStart == HostIdle /\ BuilderIdle /\ HeadersIdle /\ ResponseIdle

ResponseSpec == ResponseStart /\ [][ResponseNext]_vars

\* The arguments of the responses whose body is read and which are cloned.
CloneBodies == {Undefined, Text("1"), Buffer("1"), Blob("1"), Readable("1")}

CloneInits ==
    {NoInit, ResponseInit("201", "Created", <<[name |-> "Link", value |-> "v"]>>)}

\* A response is constructed, its body is read, and it is cloned.
CloneNext ==
    \/ \E body \in CloneBodies, init \in CloneInits : New(body, init)
    \/ \E body \in CloneBodies, init \in CloneInits : NewPartial(body, init)
    \/ Exists /\ \E acc \in Accessors : Accessor(acc)
    \/ Exists /\ IgnoreBodyUsed
    \/ createReplayReadable
    \/ \E i \in 1..MaxCalls : Resume(i)
    \/ Data
    \/ End
    \/ ErrorEvent
    \/ Clone

CloneSpec == ResponseStart /\ [][CloneNext]_vars

\* -------------------------------------------------------------------- claims
StreamBacked == "readable" \in bodyRepresentation

Calls == 1..Len(calls)

ReadAccessors == {"text", "json", "formData", "arrayBuffer", "blob", "buffer"}

\* The errors by which a read reports that the body cannot be used again,
\* as raised or as remapped by json() and formData().
ReuseErrors == {"AlreadyRead", "AlreadyUsed", "CouldNotJson", "CouldNotFormData"}

\* C1: on a body that has a representation and on which ignoreConsumption was
\* never set, every accessor call after the first one fails with 'Already read'.
C1_LaterAccessorsAlreadyRead ==
    (bodyRepresentation # {} /\ ~ignoreConsume) =>
        \A i \in Calls : i > 1 =>
            calls[i].pc = "done" /\ calls[i].result = "AlreadyRead"

C1_Witness ==
    /\ StreamBacked /\ ~ignoreConsume
    /\ Len(calls) = 2
    /\ calls[1].acc = "text" /\ calls[1].result = "ok"
    /\ calls[2].acc = "arrayBuffer" /\ calls[2].result = "AlreadyRead"

\* C2: on a stream-backed body with ignoreConsumption set before the first read
\* and the stream module present, once the source stream has ended and no call
\* waits for the replay setup, every read made through text, json, formData,
\* arrayBuffer, blob or the raw-buffer accessor (in a host that has the shape)
\* has completed and has observed the whole content of the source.
C2_EveryReadSeesWholeSource ==
    (/\ StreamBacked /\ ignoreConsume /\ streamModule
     /\ initial.ended
     /\ readableReplay # "pending"
     /\ \A i \in Calls : calls[i].pc \notin {"setup", "wait"})
    => \A i \in Calls :
          (calls[i].acc \in ReadAccessors /\ Capable(calls[i].acc)) =>
              calls[i].pc = "done" /\ calls[i].bytes = source

\* C3: on a stream-backed body with ignoreConsumption set, createReplayReadable
\* is started at most once, and every call started while that setup is pending
\* awaits it (a call refused for a missing capability aside), so that no call
\* registers on the live stream itself.
C3_CallsAwaitTheOneSetup ==
    (StreamBacked /\ ignoreConsume) =>
        /\ replayStarts <= 1
        /\ readableReplay = "pending" =>
              \A i, j \in Calls :
                  (j < i /\ calls[j].pc = "setup") =>
                      \/ calls[i].pc = "wait"
                      \/ calls[i].result = "NotAvailable"

\* C4: on a stream-backed body with ignoreConsumption set and no stream module,
\* a read served from the live stream marks the body consumed, at most one call
\* is ever served from the live stream, and every other call that the host can
\* serve fails with a reuse error.
C4_NoReplayMeansSingleUse ==
    (StreamBacked /\ ignoreConsume /\ ~streamModule) =>
        /\ \A i \in Calls : calls[i].on = "initial" => bodyUsedInternal
        /\ Cardinality({i \in Calls : calls[i].on = "initial"}) <= 1
        /\ \A i, j \in Calls :
              (/\ i # j /\ calls[i].on = "initial"
               /\ calls[j].pc = "done" /\ Capable(calls[j].acc))
              => calls[j].result \in ReuseErrors

HasGap(list) == \E i \in 1..Len(list) : list[i] = Gap
HasFull(list) == \E i \in 1..Len(list) : IsFull(list[i])
FirstFull(list) == SelectSeq(list, IsFull)[1]

\* A with() call, just made, of a full fragment on a builder on which a full
\* fragment was appended before.
SecondFull ==
    /\ last.op = "with"
    /\ IsFull(last.arg)
    /\ last.before.fullResponseAppended

Built == last.op \in {"build", "build cached"}

\* C5 as stated: under replaceSubsequentFullResponses, with(F2) of a second full
\* fragment (on a list without recorded gaps) leaves the fragment list equal
\* to [F2].
C5_ReplaceLeavesOnlyTheNewFragment ==
    (/\ replaceSubsequentFullResponses /\ SecondFull
     /\ ~HasGap(last.before.editableResponses))
    => editableResponses = <<last.arg>>

\* C5 as amended: under replaceSubsequentFullResponses, with(F2) of a second
\* full fragment removes the full fragments only: the list afterwards is the
\* partial fragments appended before, in their order, followed by F2; when the
\* list holds a recorded gap the call raises a TypeError and changes nothing.
C5_ReplaceKeepsThePartials ==
    (replaceSubsequentFullResponses /\ SecondFull) =>
        IF HasGap(last.before.editableResponses)
        THEN /\ last.error = "TypeError"
             /\ editableResponses = last.before.editableResponses
             /\ contaminated = last.before.contaminated
        ELSE /\ last.error = "none"
             /\ editableResponses =
                   Append(SelectSeq(last.before.editableResponses, IsPartial), last.arg)
             /\ contaminated

C5_Witness ==
    /\ replaceSubsequentFullResponses /\ SecondFull
    /\ last.before.editableResponses = <<Acl, Hey1>>
    /\ editableResponses = <<Acl, Hey2>>

\* The README's example has run to its last with() and build() was called.
ExampleBuilt == replaceSubsequentFullResponses /\ script = Len(Example) /\ Built

\* C6 as stated: after the example's five with() calls under
\* replaceSubsequentFullResponses, build() yields the body "Hey! 2" and the
\* Link values of the fragment <./next> alone.
C6_OnlyNextLinkSurvives ==
    ExampleBuilt =>
        /\ response.state = "fulfilled"
        /\ response.body = Buffer("Hey! 2")
        /\ HeadersGetAll(response.headers, "Link") = <<"<./next>">>

\* C6 as amended: after the example's five with() calls under
\* replaceSubsequentFullResponses, build() yields the body "Hey! 2" and the
\* Link values of all three partial fragments, in the order they were appended.
C6_AllPartialLinksSurvive ==
    ExampleBuilt =>
        /\ response.state = "fulfilled"
        /\ response.body = Buffer("Hey! 2")
        /\ response.status = "200"
        /\ HeadersGetAll(response.headers, "Link") = <<"<.acl>", "<../>", "<./next>">>
        /\ editableResponses = <<Acl, Up, NextLink, Hey2>>

C6_Witness ==
    /\ ExampleBuilt
    /\ last.op = "build"
    /\ response.state = "fulfilled"

\* C7: with neither option set, with(F2) of a full fragment on a list that holds
\* a full fragment raises 'already contains a full response' and leaves the list
\* as it was; and whenever build() has run on a list that holds a full fragment,
\* its result carries the body and status of the first full fragment.
C7_SecondFullRefusedAtWith ==
    (~ignoreSubsequentFullResponses /\ ~replaceSubsequentFullResponses) =>
        /\ (/\ last.op = "with" /\ IsFull(last.arg)
            /\ HasFull(last.before.editableResponses))
           => /\ last.error = "already contains a full response"
              /\ editableResponses = last.before.editableResponses
        /\ (Built /\ HasFull(editableResponses))
           => /\ response.state = "fulfilled"
              /\ response.body = BodyValue(FirstFull(editableResponses))
              /\ response.status = FirstFull(editableResponses).status

C7_Witness ==
    /\ ~ignoreSubsequentFullResponses /\ ~replaceSubsequentFullResponses
    /\ last.op = "with" /\ last.arg = Hey2
    /\ last.error = "already contains a full response"
    /\ editableResponses = <<Acl, Hey1>>

\* C8: under ignoreSubsequentFullResponses, with(F2) of a second full fragment
\* raises nothing and leaves the fragment list, the dirty flag and the cached
\* build as they were; and whenever build() has run on a list that holds a full
\* fragment, its result carries the body of the first full fragment.
C8_IgnoredFullChangesNothing ==
    ignoreSubsequentFullResponses =>
        /\ SecondFull
           => /\ last.error = "none"
              /\ editableResponses = last.before.editableResponses
              /\ contaminated = last.before.contaminated
              /\ response = last.before.response
        /\ (Built /\ HasFull(editableResponses))
           => /\ response.state = "fulfilled"
              /\ response.body = BodyValue(FirstFull(editableResponses))

C8_Witness ==
    /\ ignoreSubsequentFullResponses /\ SecondFull
    /\ last.arg = Hey2
    /\ editableResponses = <<Acl, Hey1>>
    /\ ~contaminated
    /\ response.state = "fulfilled"

\* C9: the builder takes back any fragment list after clear(): with() of a full
\* fragment on a fragment list that holds no full fragment and no recorded gap
\* (as the list is after clear()) raises no error and appends the fragment.
C9_ClearGivesAFreshBuilder ==
    (/\ last.op = "with" /\ IsFull(last.arg)
     /\ ~HasFull(last.before.editableResponses)
     /\ ~HasGap(last.before.editableResponses))
    => /\ last.error = "none"
       /\ editableResponses = Append(last.before.editableResponses, last.arg)

FullsIn(list) == {i \in 1..Len(list) : IsFull(list[i])}

\* C11: whatever with(), withHeaders(), clear() and build() calls were made,
\* under any merge policy and whether the calls failed or not, the fragment list
\* holds at most one full fragment.
C11_AtMostOneFullFragment == Cardinality(FullsIn(editableResponses)) <= 1

C11_Witness ==
    /\ replaceSubsequentFullResponses /\ SecondFull
    /\ last.before.editableResponses = <<Hey1, Up>>
    /\ last.arg = Hey2
    /\ FullsIn(editableResponses) = {2}

\* build() has just merged the fragment list (and did not answer from its cache).
Merged == last.op = "build"

\* C12: when build() merges a fragment list that holds a full fragment F whose
\* body is not consumed, the response it yields has the body F was made with
\* (a text, a buffer, a blob, a form, an array buffer or a byte stream) and the
\* status and statusText of F, whatever partial fragments stand before or after F.
C12_FullFragmentWins ==
    (/\ Merged /\ HasFull(last.before.editableResponses)
     /\ ~FirstFull(last.before.editableResponses).bodyUsedInternal)
    => /\ response.state = "fulfilled"
       /\ response.body = FirstFull(last.before.editableResponses).bodyRepresentation
       /\ response.status = FirstFull(last.before.editableResponses).status
       /\ response.statusText = FirstFull(last.before.editableResponses).statusText

\* The values the fragments of a list carry for a name, in fragment order.
RECURSIVE ValuesOf(_, _)
ValuesOf(list, name) ==
    IF list = <<>> THEN <<>>
    ELSE (IF list[1] = Gap THEN <<>> ELSE HeadersGetAll(list[1].headers, name))
           \o ValuesOf(Tail(list), name)

\* The header names the fragments carry.
MergedNames == {"link", "content-type"}

\* C13: build() fails exactly when the first full fragment of the list has a
\* consumed body; a consumed partial fragment never makes it fail: the headers
\* of every fragment are merged, and without a full fragment the body and the
\* status of the result come from fragments that are not consumed, or are unset.
C13_OnlyAConsumedFullFragmentFails ==
    Merged =>
        LET list == last.before.editableResponses IN
        /\ response.state = "rejected"
             <=> (HasFull(list) /\ FirstFull(list).bodyUsedInternal)
        /\ response.state = "fulfilled" =>
             /\ \A name \in MergedNames :
                   HeadersGetAll(response.headers, name) = ValuesOf(list, name)
             /\ (~HasFull(list) /\ response.body # Undefined) =>
                   \E i \in 1..Len(list) :
                       /\ ~list[i].bodyUsedInternal
                       /\ list[i].bodyRepresentation = response.body
             /\ (~HasFull(list) /\ response.status # "undefined") =>
                   \E i \in 1..Len(list) :
                       /\ ~list[i].bodyUsedInternal
                       /\ list[i].status = response.status

C13_Witness ==
    /\ Merged /\ response.state = "fulfilled"
    /\ Len(last.before.editableResponses) = 2
    /\ last.before.editableResponses[1] = Used(Streamed)
    /\ last.before.editableResponses[2] = Streamed
    /\ response.body = Readable("s")
    /\ HeadersGetAll(response.headers, "link") = <<"<./next>", "<./next>">>

\* The body addResponse finds in a fragment of a list without a full fragment:
\* the body the fragment exposes or, failing that and unless the readable check
\* is disabled, the stream forced out of it.
Resolved(r) ==
    IF BodyValue(r) # Undefined THEN BodyValue(r)
    ELSE IF disableReadableCheck THEN Undefined
    ELSE asReadable(r).body

\* The fragments of a list that carry a body: not consumed, with a body found.
Suppliers(list) ==
    {i \in 1..Len(list) :
        list[i] # Gap /\ ~list[i].bodyUsedInternal /\ Resolved(list[i]) # Undefined}

Last(S) == CHOOSE i \in S : \A j \in S : j <= i
First(S) == CHOOSE i \in S : \A j \in S : i <= j

\* C14: when build() merges a list without a full fragment, the body of the
\* result is that of the last fragment that carries one and the status and
\* statusText are those of that same fragment, unset when it has no numeric
\* status; without any body-carrying fragment all three are unset.
C14_BodyAndStatusFromOneFragment ==
    (Merged /\ ~HasFull(last.before.editableResponses)) =>
        LET list == last.before.editableResponses IN
        /\ response.state = "fulfilled"
        /\ IF Suppliers(list) = {}
           THEN /\ response.body = Undefined
                /\ response.status = "undefined"
                /\ response.statusText = "undefined"
           ELSE /\ response.body = Resolved(list[Last(Suppliers(list))])
                /\ response.status = list[Last(Suppliers(list))].status
                /\ response.statusText = list[Last(Suppliers(list))].statusText

\* C15: when build() merges a list of partial fragments, the body of the result
\* is that of the last fragment of the list that carries a body; hence when the
\* list was just re-added in reversed order after clear(), the body, the status
\* and the statusText of the result are those of the first body-carrying
\* fragment of the original order.
C15_LastBodyWinsSoReversalFlipsIt ==
    [][(last'.op = "build" /\ ~HasFull(editableResponses)) =>
          LET list == editableResponses
              original == last.before.editableResponses
          IN /\ response'.state = "fulfilled"
             /\ response'.body = IF Suppliers(list) = {} THEN Undefined
                                 ELSE Resolved(list[Last(Suppliers(list))])
             /\ (last.op = "reversed" /\ Suppliers(list) # {}) =>
                   /\ response'.body = Resolved(original[First(Suppliers(original))])
                   /\ response'.status = original[First(Suppliers(original))].status
                   /\ response'.statusText = original[First(Suppliers(original))].statusText
      ]_vars

\* The last element of a list of values, as a list: empty for an empty list.
LastOf(values) ==
    IF values = <<>> THEN <<>> ELSE <<values[Len(values)]>>

\* C16: build() merges the headers of every fragment, partial and full, in list
\* order. With useSetForEntityHeaders disabled getAll(name) of the result is the
\* concatenation of the fragments' values for the name, duplicates kept; with it
\* enabled an entity-header name holds exactly the value of the last fragment
\* that carries it, and every other name is still appended. (Builders without
\* a custom entity-header list; C17 is about the configured list.)
C16_HeadersMergedInListOrder ==
    (Merged /\ ~options.entityHeaders.given) =>
        LET list == last.before.editableResponses IN
        /\ response.state = "fulfilled"
        /\ \A name \in MergedNames :
              HeadersGetAll(response.headers, name) =
                  IF useSetForEntityHeaders /\ name \in DefaultEntityHeaders
                  THEN LastOf(ValuesOf(list, name))
                  ELSE ValuesOf(list, name)

\* A merge with useSetForEntityHeaders enabled of a full and a partial fragment
\* that both carry a content-type and a Link.
C16_Witness ==
    /\ Merged /\ ~options.entityHeaders.given /\ useSetForEntityHeaders
    /\ response.state = "fulfilled"
    /\ LET list == last.before.editableResponses IN
       /\ HasFull(list)
       /\ Len(ValuesOf(list, "content-type")) >= 2
       /\ Len(ValuesOf(list, "link")) >= 2
       /\ Len(HeadersGetAll(response.headers, "content-type")) = 1
       /\ HeadersGetAll(response.headers, "link") = ValuesOf(list, "link")

\* The entity-header names a builder was configured with: the custom list given
\* to the constructor, the default list when none was given.
ConfiguredEntityHeaders ==
    IF options.entityHeaders.given THEN options.entityHeaders.names
    ELSE DefaultEntityHeaders

\* C17: the entity-header list is part of the builder's configuration: with
\* useSetForEntityHeaders enabled build() overwrites exactly the names of the
\* list given to the constructor and appends every other name; the default
\* list is used only when no list was given.
C17_CustomEntityHeadersAreUsed ==
    (Merged /\ useSetForEntityHeaders) =>
        LET list == last.before.editableResponses IN
        /\ response.state = "fulfilled"
        /\ \A name \in MergedNames :
              HeadersGetAll(response.headers, name) =
                  IF name \in ConfiguredEntityHeaders
                  THEN LastOf(ValuesOf(list, name))
                  ELSE ValuesOf(list, name)

\* The spellings among Names of the header a call named.
Spellings(name) == {n \in Names : ToLowerCase(n) = ToLowerCase(name)}

\* C18: for every valid name and valid values: after set(n, v), get(n) is v and
\* getAll(n) is [v] whatever n held before; after set(n, v) followed by
\* append(n, w), getAll(n) is [v, w] in that order; after delete(n), has(n) is
\* false; get, getAll, has, set, append and delete match the name in any case.
C18_SetGetAppendAgree ==
    [][/\ (call'.op = "set" /\ call'.error = "none") =>
              \A n \in Spellings(call'.name) :
                  /\ HeadersHas(headers', n)
                  /\ HeadersGet(headers', prototype', n) = call'.value
                  /\ HeadersGetAll(headers', n) = <<call'.value>>
       /\ (/\ call.op = "set" /\ call.error = "none"
           /\ call'.op = "append" /\ call'.error = "none"
           /\ call'.name \in Spellings(call.name)) =>
              \A n \in Spellings(call'.name) :
                  HeadersGetAll(headers', n) = <<call.value, call'.value>>
       /\ (call'.op = "delete" /\ call'.error = "none") =>
              \A n \in Spellings(call'.name) :
                  /\ ~HeadersHas(headers', n)
                  /\ HeadersGetAll(headers', n) = <<>>
      ]_vars

\* Whether a mode forbids a mutation of a name.
Forbidden(m, name) ==
    \/ m = "immutable"
    \/ m = "request" /\ ToLowerCase(name) \in FORBIDDEN_REQUEST_HEADER_NAMES
    \/ m = "response" /\ ToLowerCase(name) \in FORBIDDEN_RESPONSE_HEADER_NAMES

\* The outcome of set, append or delete on an unguarded Headers.
Unguarded(op, h, p, name, value) ==
    LET error == IF validateName(name) # "none" THEN validateName(name)
                 ELSE IF op = "delete" THEN "none"
                 ELSE validateValue(value)
    IN [error |-> error,
        headers |-> IF error # "none" THEN h
                    ELSE IF op = "set" THEN HeadersSet(h, name, value)
                    ELSE IF op = "append" THEN HeadersAppend(h, name, value)
                    ELSE HeadersDelete(h, name),
        prototype |-> IF error # "none" THEN p
                      ELSE IF op = "set" THEN PrototypeSet(p, name, value)
                      ELSE IF op = "append" THEN PrototypeAppend(h, p, name, value)
                      ELSE p]

\* C19: on a collection made by guarded(init, mode), in mode immutable every
\* set, append and delete fails; in mode request (response) every set, append
\* and delete of a name that is, in any case, in the forbidden request
\* (response) list fails; a failing call leaves the content unchanged, and a
\* call on a name that is not forbidden behaves like the unguarded operation.
C19_GuardRefusesForbiddenNames ==
    [][mode # "none" =>
          /\ mode' = mode
          /\ Forbidden(mode, call'.name) =>
                /\ call'.error \in {"Headers instance is immutable", "forbidden header name"}
                /\ headers' = headers
                /\ prototype' = prototype
          /\ ~Forbidden(mode, call'.name) =>
                LET plain == Unguarded(call'.op, headers, prototype, call'.name, call'.value)
                IN /\ call'.error = plain.error
                   /\ headers' = plain.headers
                   /\ prototype' = plain.prototype
      ]_vars

\* A refused set of Content-Length, spelled in capitals, on a request-guarded
\* collection whose init carried the header.
C19_Witness ==
    /\ mode = "request"
    /\ call.op = "set" /\ call.name = "Content-Length"
    /\ call.error = "forbidden header name"
    /\ HeadersGetAll(headers, "content-length") = <<"w">>

\* The names the token grammar refuses, and the values that hold a forbidden
\* control character, among those given to the methods.
InvalidNames == {"", "bad name"}
InvalidValues == {"a\nb"}

\* C20: a set or append with a name that is empty or breaks the token grammar,
\* or with a value that holds a forbidden control character, and a delete with
\* an invalid name, raise a validation failure and leave the whole collection,
\* its names, values and their order, as it was before the call.
C20_ValidationPrecedesMutation ==
    [][(\/ call'.name \in InvalidNames
        \/ call'.op \in {"set", "append"} /\ call'.value \in InvalidValues) =>
          /\ call'.error # "none"
          /\ mode = "none" =>
                call'.error \in {"not a legal HTTP header name",
                                 "not a legal HTTP header value"}
          /\ headers' = headers
          /\ prototype' = prototype
          /\ HeadersPairs(headers') = HeadersPairs(headers)
      ]_vars

\* A refused append of a value with a line feed to a header that holds a value,
\* and the header still holds that value only.
C20_Witness ==
    /\ mode = "none"
    /\ call.op = "append" /\ call.name = "Link" /\ call.value = "a\nb"
    /\ call.error = "not a legal HTTP header value"
    /\ HeadersGetAll(headers, "link") = <<"v">>

\* The usable leaves of a header value, in list order: strings as they are,
\* numbers stringified, NaN and values of other types dropped.
RECURSIVE Usable(_)
Usable(value) ==
    IF value.type = "array"
    THEN IF value.items = <<>> THEN <<>>
         ELSE Usable(Head(value.items)) \o Usable(List(Tail(value.items)))
    ELSE IF value.type = "string" THEN <<value.text>>
    ELSE IF value.type = "number" /\ ~value.nan THEN <<NumberToString(value.num)>>
    ELSE <<>>

\* C21: new Headers(mapping) terminates without error, and for every entry of
\* the mapping getAll(name) is the list of the entry's usable leaves in list
\* order (a single scalar yields that one value).
C21_MappingListsAreFlattened ==
    (made.op = "Headers" /\ made.init.kind = "object") =>
        /\ made.error = "none"
        /\ \A i \in 1..Len(made.init.entries) :
              HeadersGetAll(headers, made.init.entries[i].name)
                  = Usable(made.init.entries[i].value)

C23_StatusDefaultsTo200 ==
    (/\ Exists
     /\ made.op \in {"Response", "error"}
     /\ made.op = "Response" => made.init.status = "undefined") =>
        /\ editableStatus = "200"
        /\ ok

\* A body argument that is a body and is not empty.
NonEmptyBody(body) == body.kind # "undefined" /\ body.val # ""

\* C24: constructing a Response with an explicit status of 101, 204, 205 or
\* 304 and a non-empty body fails; with one of these statuses and no body, and
\* with a non-empty body and any other status, it succeeds.
C24_NullBodyStatusRefusesABody ==
    made.op \in {"Response", "PartialResponse"} =>
        (made.error # "none"
            <=> /\ made.init.given
                /\ made.init.status \in {"101", "204", "205", "304"}
                /\ NonEmptyBody(made.body))

\* new Response("1", { status: 204 }) was refused.
C24_Witness ==
    /\ made.op = "Response"
    /\ made.body = Text("1")
    /\ made.init.status = "204"
    /\ made.error = "Body provided for a null-body status"
    /\ bodyRepresentation = {}

\* No call was made on the headers of the response since it was constructed.
Fresh == call.op = "new"

\* The normalized absolute form of the URLs given to redirect.
Normalized(url) ==
    CASE url = "/next" -> "https://fetch.spec.whatwg.org/next"
      [] url = "next" -> "https://fetch.spec.whatwg.org/next"
      [] url = "https://Example.com" -> "https://example.com/"
      [] url = "HTTPS://example.com/a" -> "https://example.com/a"

\* C25: redirect(url, status) fails with a range error for every status other
\* than 301, 302, 303, 307 and 308; for one of these it returns a response
\* with that status, redirected = true, no body and exactly one header,
\* Location, whose single value is the normalized absolute URL.
C25_RedirectChecksStatusAndSetsLocation ==
    made.op = "redirect" =>
        IF made.status \notin {"301", "302", "303", "307", "308"}
        THEN made.error = "RangeError"
        ELSE /\ made.error = "none"
             /\ editableStatus = made.status
             /\ redirected
             /\ bodyRepresentation = {}
             /\ Fresh =>
                   HeadersPairs(headers)
                      = <<[name |-> "location", value |-> Normalized(made.url)]>>

\* redirect("https://Example.com", 302) returned its response.
C25_Witness ==
    /\ made.op = "redirect" /\ made.url = "https://Example.com" /\ made.status = "302"
    /\ made.error = "none" /\ Fresh
    /\ redirected /\ editableStatus = "302"
    /\ HeadersGetAll(headers, "Location") = <<"https://example.com/">>

\* C26: the headers of a response returned by Response.error() or by
\* Response.redirect() are immutably guarded: every set, append and delete on
\* them fails and they stay as created.
C26_StaticResponsesHaveImmutableHeaders ==
    [][(Exists /\ made.op \in {"error", "redirect"}) =>
          /\ call'.error = "Headers instance is immutable"
          /\ headers' = headers
          /\ prototype' = prototype
      ]_vars

\* The content-type to infer from the source of a body, "" for none.
Inferred(body) ==
    IF body.kind = "text" THEN "text/plain;charset=UTF-8"
    ELSE IF body.kind = "blob" /\ "type" \in DOMAIN body THEN body.type
    ELSE IF body.kind = "searchParams"
    THEN "application/x-www-form-urlencoded;charset=UTF-8"
    ELSE ""

\* The content-type among the headers given to a constructor.
GivenContentType(init) ==
    HeadersGetAll(addHeaders(EmptyHeaders, init.headers), "content-type")

\* C29: at construction, when the given headers hold no content-type, the
\* content-type is inferred from the source: text/plain;charset=UTF-8 for a
\* text, its media type for a blob that has one,
\* application/x-www-form-urlencoded;charset=UTF-8 for URL-encoded
\* parameters, none for any other source; a given content-type is kept as it is.
C29_ContentTypeIsInferredFromTheSource ==
    (Exists /\ Fresh /\ made.op \in {"Response", "PartialResponse"}) =>
        HeadersGetAll(headers, "content-type") =
            IF GivenContentType(made.init) # <<>> THEN GivenContentType(made.init)
            ELSE IF Inferred(made.body) = "" THEN <<>>
            ELSE <<Inferred(made.body)>>

\* C27: the clone of a response whose body was consumed is itself consumed: it
\* reports bodyUsed, and every accessor called on it fails with the
\* consumption error; the clone of an unconsumed response has the same
\* status, equal headers and the same body.
C27_CloneKeepsConsumptionAndContent ==
    (made.op = "clone" /\ made.error = "none") =>
        IF made.before.bodyUsed
        THEN /\ bodyUsedInternal
             /\ \A i \in 1..Len(calls) : calls[i].result = "AlreadyRead"
        ELSE calls = <<>> =>
               /\ editableStatus = made.before.status
               /\ editableStatusText = made.before.statusText
               /\ headers = made.before.headers
               /\ (bodyRepresentation = {}) = (made.before.bodyRepresentation = {})
               /\ source = made.before.source

\* C28: every PartialResponse has partial = true, has no status unless a
\* numeric status was given at construction, and has ignoreConsume set from
\* the start, so that on a body that is no stream no accessor call is ever
\* refused as already read (each call ends as a first call would) and
\* bodyUsed stays false.
C28_PartialResponseIsReusable ==
    (Exists /\ made.op = "PartialResponse") =>
        /\ partial
        /\ editableStatus = IF made.init.given /\ made.init.status # "undefined"
                            THEN made.init.status ELSE "undefined"
        /\ ignoreConsume
        /\ "readable" \notin bodyRepresentation =>
              /\ ~bodyUsedInternal
              /\ \A i \in 1..Len(calls) :
                    calls[i].result = IF bodyRepresentation = {} THEN "undefined"
                                      ELSE Convert(calls[i].acc, FALSE)

\* A PartialResponse made of a text with no init, read twice with success.
C28_Witness ==
    /\ Exists /\ made.op = "PartialResponse" /\ ~made.init.given
    /\ bodyRepresentation = {"text"}
    /\ editableStatus = "undefined"
    /\ Len(calls) = 2
    /\ calls[1].acc = "text" /\ calls[1].result = "ok"
    /\ calls[2].acc = "text" /\ calls[2].result = "ok"
    /\ ~bodyUsedInternal

\* C30: ignoreBodyUsed is a one-way switch: ignoreConsume, once set, is never
\* cleared; on a consumed body ignoreBodyUsed changes nothing and every later
\* accessor call still fails with the consumption error; bodyUsed, once true,
\* never becomes false again.
C30_IgnoreBodyUsedIsOneWay ==
    [][/\ ignoreConsume => ignoreConsume'
       /\ bodyUsedInternal => bodyUsedInternal'
       /\ bodyUsedInternal => ignoreConsume' = ignoreConsume
       /\ (bodyUsedInternal /\ Len(calls') > Len(calls)) =>
              calls'[Len(calls')].result = "AlreadyRead"
      ]_vars

\* A consumed body without the switch, on which ignoreBodyUsed would change
\* nothing, and a second accessor call that failed.
C30_Witness ==
    /\ bodyUsedInternal /\ ~ignoreConsume
    /\ ignoreBodyUsed = ignoreConsume
    /\ Len(calls) = 2
    /\ calls[1].result = "ok"
    /\ calls[2].result = "AlreadyRead"

\* C35: under replaceSubsequentFullResponses, with(F2) of a full fragment when
\* a full fragment was appended before succeeds for every fragment list, also
\* one in which an absent fragment was recorded as a gap; a recorded gap never
\* makes with() or build() fail.
C35_GapsNeverFailWithOrBuild ==
    /\ (replaceSubsequentFullResponses /\ SecondFull) => last.error = "none"
    /\ (last.op = "with" /\ HasGap(last.before.editableResponses)
          /\ ~(SecondFull /\ ~replaceSubsequentFullResponses
                 /\ ~ignoreSubsequentFullResponses)) => last.error = "none"
    /\ (Built /\ HasGap(last.before.editableResponses)) => response.state = "fulfilled"

\* The names a guard mode forbids.
ForbiddenNames(m) ==
    IF m = "request" THEN FORBIDDEN_REQUEST_HEADER_NAMES
    ELSE IF m = "response" THEN FORBIDDEN_RESPONSE_HEADER_NAMES
    ELSE {}

\* C34: Headers.guarded(init, mode) guards only the mutations made after the
\* construction: a forbidden name that init supplied is in a collection
\* guarded in request or response mode, and no later set, append or delete
\* changes or removes it.
C34_ForbiddenNamesOfInitStay ==
    [][\A name \in ForbiddenNames(mode) :
          /\ HeadersHas(headers', name) = HeadersHas(headers, name)
          /\ HeadersGetAll(headers', name) = HeadersGetAll(headers, name)
      ]_vars

\* A collection guarded in response mode holds the set-cookie of its init
\* after a delete of Set-Cookie was refused.
C34_Witness ==
    /\ mode = "response"
    /\ call.op = "delete" /\ call.name = "Set-Cookie"
    /\ call.error = "forbidden header name"
    /\ HeadersGetAll(headers, "set-cookie") = <<"v">>

\* C32: the first accessor call on an unconsumed body without ignoreConsumption
\* never fails because of the consumption state: it ends as the conversion of
\* the representation ends on a body that is not marked consumed, so
\* arrayBuffer() on a blob-backed body and the raw-buffer accessor on an
\* array-buffer- or blob-backed body succeed.
C32_FirstCallNeverFailsOnConsumption ==
    (Len(calls) >= 1 /\ ~ignoreConsume /\ ~StreamBacked /\ bodyRepresentation # {}) =>
        /\ calls[1].result = Convert(calls[1].acc, FALSE)
        /\ (calls[1].acc = "arrayBuffer" /\ bodyRepresentation = {"blob"})
              => calls[1].result = "ok"
        /\ (calls[1].acc = "buffer" /\ bodyRepresentation \in {{"arrayBuffer"}, {"blob"}})
              => calls[1].result = "ok"

\* The outcomes of a read that failed on its stream.
ReadFailures == {"StreamError", "CouldNotJson", "CouldNotFormData"}

\* C33: the replay buffer records an error of the source stream and replays
\* it: a read that is handed a replay copy once the error is recorded
\* eventually fails; it neither stays pending nor ends as if the stream were
\* complete.
C33_ReplayedErrorFailsTheRead ==
    \A i \in 1..MaxCalls :
        (/\ Len(calls) >= i /\ replayError
         /\ calls[i].pc \in {"setup", "wait"} /\ Route(calls[i].acc) = "read")
        ~> (/\ Len(calls) >= i /\ calls[i].pc = "done"
            /\ calls[i].result \in ReadFailures)

\* C31: every accessor call on a stream-backed body eventually completes, with
\* a value or a failure, when the source stream ends or errors, also a read
\* started with ignoreConsume after the stream ended or errored.
C31_EveryCallCompletes ==
    \A i \in 1..MaxCalls :
        (Len(calls) >= i) ~> (Len(calls) >= i /\ calls[i].pc = "done")

====
